---- MODULE Spec2Model ----
(***************************************************************************)
(* Context aggregation and conversation lifecycle of the brain-chat        *)
(* backend: scope resolution over captures and collections, aggregation    *)
(* with the retrieval collaborator, and the streaming conversation         *)
(* handlers with their persistence.                                        *)
(***************************************************************************)
EXTENDS Integers, Sequences, FiniteSets, TLC

(***************************************************************************)
(* Bounds of the model.                                                    *)
(***************************************************************************)
NumCaptures == 2
NumCollections == 2
MaxMembers == 2
MaxItems == 2
MaxHits == 2
MaxChunks == 2
NumSeeds == 1
NumSessions == 2
MaxTime == 1
MaxTitle == 1
MaxListed == 3
MaxMessage == 11
MaxRetriesEnv == 3
MaxCalls == 2

(***************************************************************************)
(* Program constants.                                                      *)
(***************************************************************************)
AllLimit == 1000
BookmarkLimit == 500
DefaultSearchLimit == 20
MaxTitleLength == 200
TitleWords == 5
TitleLimit == 50
TitleKeep == 47
DefaultListLimit == 20
MaxListLimit == 50

Users == {"u1", "u2"}
CaptureIds == 1..NumCaptures
CollectionIds == 1..NumCollections
ContextTypes == {"all", "collection", "bookmarks", "specific", "mixed"}

VARIABLES
  captures,      \* Capture documents: id -> [owner, status, bookmarked]
  collections,   \* Collection documents: id -> [user, captures]
  aggQuery,      \* the ContextQuery of the aggregation request, or NoQuery
  aggEnv,        \* what the collaborators did during that request
  aggResult,     \* what aggregateContext returned or threw
  conversations, \* BrainChatConversation documents: id -> document or NoDoc
  sessions,      \* BrainChatSession documents: id -> document or NoDoc
  req,           \* the requests being handled: slot -> request state
  lastOp,        \* the last owner-scoped operation: its input, the stores
                 \* before it and its response
  clock,         \* the current time, as read by Date.now and new Date()
  mongo          \* database.ts: isConnected and the call of connectMongo

aggVars == <<captures, collections, aggQuery, aggEnv, aggResult>>
chatVars == <<conversations, sessions, req, lastOp, clock>>
dbVars == <<mongo>>
vars == <<captures, collections, aggQuery, aggEnv, aggResult,
          conversations, sessions, req, lastOp, clock, mongo>>

NoQuery == [contextType |-> "none"]
NoResult == [outcome |-> "none", searchInvoked |-> FALSE]

(***************************************************************************)
(* Generic helpers.                                                        *)
(***************************************************************************)
Min(a, b) == IF a < b THEN a ELSE b

Take(s, n) == SubSeq(s, 1, Min(n, Len(s)))

RECURSIVE Flatten(_)
Flatten(ss) == IF ss = <<>> THEN <<>> ELSE Head(ss) \o Flatten(Tail(ss))

SeqsUpTo(S, n) == UNION {[1..k -> S] : k \in 0..n}

Range(s) == {s[i] : i \in 1..Len(s)}

(***************************************************************************)
(* database.ts: connectMongo.  mongo holds the module's isConnected flag   *)
(* and the state of the call of connectMongo: calls counts the calls made, *)
(* wasConnected is the flag as the call found it, uri whether a connection *)
(* URI is configured, attempt the loop variable, and log the settled       *)
(* connection attempts ("ok", "fail") and the delays waited ("wait") in    *)
(* their order.  One call runs at a time.                                  *)
(***************************************************************************)
DefaultRetries == 5
BaseDelay == 1000

RECURSIVE Pow2(_)
Pow2(n) == IF n = 0 THEN 1 ELSE 2 * Pow2(n - 1)

\* Number(process.env.MONGO_CONNECT_RETRIES || 5): given is whether the
\* variable holds a text that is not empty, value the number it reads as
MaxRetriesOf(given, value) == IF given THEN value ELSE DefaultRetries

RetriesValues == 0..MaxRetriesEnv

MongoIdle ==
  [isConnected |-> FALSE, calls |-> 0, pc |-> "idle", wasConnected |-> FALSE,
   uri |-> FALSE, maxRetries |-> 0, attempt |-> 0, log |-> <<>>,
   error |-> "none"]

Tried(result) == [e |-> result, ms |-> 0]

Waited(ms) == [e |-> "wait", ms |-> ms]

\* the test of the for loop, and the throw after the loop
LoopTest(m) ==
  IF m.attempt <= m.maxRetries
  THEN [m EXCEPT !.pc = "connecting"]
  ELSE [m EXCEPT !.pc = "thrown", !.error = "Failed to connect to MongoDB"]

\* mutant: the delay is waited after every failed attempt
WaitsAfterEveryFailure(attempt, maxRetries) == TRUE

\* if (attempt < maxRetries)
WaitsBeforeRetry(attempt, maxRetries) == attempt < maxRetries

\* a call of connectMongo, up to its first connection attempt
ConnectMongo ==
  /\ mongo.pc \in {"idle", "returned", "thrown"}
  /\ mongo.calls < MaxCalls
  /\ \E uri \in BOOLEAN, given \in BOOLEAN, value \in RetriesValues :
       /\ ~given => value = 0
       /\ LET m0 == [MongoIdle EXCEPT
                       !.isConnected = mongo.isConnected,
                       !.calls = mongo.calls + 1,
                       !.wasConnected = mongo.isConnected,
                       !.uri = uri,
                       !.maxRetries = MaxRetriesOf(given, value)]
          IN mongo' =
               IF mongo.isConnected
               THEN [m0 EXCEPT !.pc = "returned"]
               ELSE IF ~uri
               THEN [m0 EXCEPT !.pc = "thrown", !.error = "MONGO_URI is not set"]
               ELSE LoopTest([m0 EXCEPT !.attempt = 1])
  /\ UNCHANGED <<aggVars, chatVars>>

\* await mongoose.connect(uri, defaultOptions) settles
MongooseConnect ==
  /\ mongo.pc = "connecting"
  /\ \E ok \in BOOLEAN :
       mongo' =
         IF ok
         THEN [mongo EXCEPT !.isConnected = TRUE, !.pc = "returned",
                            !.log = Append(@, Tried("ok"))]
         ELSE LET m1 == [mongo EXCEPT !.log = Append(@, Tried("fail"))]
              IN IF WaitsBeforeRetry(m1.attempt, m1.maxRetries)
                 THEN [m1 EXCEPT !.pc = "waiting"]
                 ELSE LoopTest([m1 EXCEPT !.attempt = @ + 1])
  /\ UNCHANGED <<aggVars, chatVars>>

\* await delay(baseDelay * Math.pow(2, attempt - 1)) is over
DelayElapsed ==
  /\ mongo.pc = "waiting"
  /\ mongo' =
       LoopTest([mongo EXCEPT
                   !.log = Append(@, Waited(BaseDelay * Pow2(mongo.attempt - 1))),
                   !.attempt = @ + 1])
  /\ UNCHANGED <<aggVars, chatVars>>

NextConnect == ConnectMongo \/ MongooseConnect \/ DelayElapsed

\* the values of a sequence of ObjectId instances, as a set
Vals(s) == {s[i].val : i \in 1..Len(s)}

(***************************************************************************)
(* An ObjectId instance is an object: it has an identity (ref, the place   *)
(* that deserialised or constructed it) and a value (val, the identifier). *)
(* Every driver result holds freshly built instances.                      *)
(***************************************************************************)
ObjectId(origin, v) == [ref |-> origin, val |-> v]

\* [...new Set(xs)]: insertion order kept, an element dropped when an earlier
\* element is the same value under SameValueZero, which for objects is the
\* same reference.
RECURSIVE NewSet(_)
NewSet(xs) ==
  IF xs = <<>> THEN <<>>
  ELSE LET init == NewSet(SubSeq(xs, 1, Len(xs) - 1))
           last == xs[Len(xs)]
       IN IF \E i \in 1..Len(init) : init[i].ref = last.ref
          THEN init
          ELSE Append(init, last)

(***************************************************************************)
(* Storage collaborator: queries over the Capture and Collection models.   *)
(* A find returns the matching documents once each, in identifier order.   *)
(***************************************************************************)
CaptureFind(matching) ==
  SelectSeq([i \in CaptureIds |-> i], LAMBDA c : c \in matching)

CollectionFind(matching) ==
  SelectSeq([i \in CollectionIds |-> i], LAMBDA k : k \in matching)

(***************************************************************************)
(* Scope resolution.                                                       *)
(***************************************************************************)
\* mutant: the find of policy all has no limit
getAllUserCapturesInUnlimited(stored, userId) ==
  LET match(c) == stored[c].owner = userId /\ stored[c].status = "active"
      found == SelectSeq([i \in 1..Len(stored) |-> i], match)
  IN [i \in 1..Len(found) |-> ObjectId(<<"all", found[i]>>, found[i])]

\* getAllUserCaptures over the stored captures: the matching documents once
\* each, in identifier order, .limit(1000)
getAllUserCapturesIn(stored, userId) ==
  LET match(c) == stored[c].owner = userId /\ stored[c].status = "active"
      found == Take(SelectSeq([i \in 1..Len(stored) |-> i], match), AllLimit)
  IN [i \in 1..Len(found) |-> ObjectId(<<"all", found[i]>>, found[i])]

getAllUserCaptures(userId) == getAllUserCapturesIn(captures, userId)

getCollectionCaptures(userId, contextItems) ==
  LET isCol(item) == item.type = "collection"
      collectionIds == {it.id : it \in Range(SelectSeq(contextItems, isCol))}
      match(k) == k \in collectionIds /\ collections[k].user = userId
      found == CollectionFind({k \in CollectionIds : match(k)})
      members(k) == [j \in 1..Len(collections[k].captures) |->
                       ObjectId(<<"collection", k, j>>, collections[k].captures[j])]
      captureIds == Flatten([i \in 1..Len(found) |-> members(found[i])])
  IN NewSet(captureIds)

\* mutant: the status of a bookmarked capture is not part of the filter
getBookmarkedCapturesAnyStatus(userId) ==
  LET match(c) == /\ captures[c].owner = userId
                  /\ captures[c].bookmarked
      found == Take(CaptureFind({c \in CaptureIds : match(c)}), BookmarkLimit)
  IN [i \in 1..Len(found) |-> ObjectId(<<"bookmarks", found[i]>>, found[i])]

\* getBookmarkedCaptures over the stored captures: .limit(500)
getBookmarkedCapturesIn(stored, userId) ==
  LET match(c) == /\ stored[c].owner = userId
                  /\ stored[c].bookmarked
                  /\ stored[c].status = "active"
      found == Take(SelectSeq([i \in 1..Len(stored) |-> i], match), BookmarkLimit)
  IN [i \in 1..Len(found) |-> ObjectId(<<"bookmarks", found[i]>>, found[i])]

getBookmarkedCaptures(userId) == getBookmarkedCapturesIn(captures, userId)

\* mutant: the status of a named capture is not part of the filter
getSpecificCapturesAnyStatus(userId, contextItems) ==
  LET isCap(item) == item.type = "capture"
      captureIds == {it.id : it \in Range(SelectSeq(contextItems, isCap))}
      match(c) == /\ c \in captureIds
                  /\ captures[c].owner = userId
      found == CaptureFind({c \in CaptureIds : match(c)})
  IN [i \in 1..Len(found) |-> ObjectId(<<"specific", found[i]>>, found[i])]

getSpecificCaptures(userId, contextItems) ==
  LET isCap(item) == item.type = "capture"
      captureIds == {it.id : it \in Range(SelectSeq(contextItems, isCap))}
      match(c) == /\ c \in captureIds
                  /\ captures[c].owner = userId
                  /\ captures[c].status = "active"
      found == CaptureFind({c \in CaptureIds : match(c)})
  IN [i \in 1..Len(found) |-> ObjectId(<<"specific", found[i]>>, found[i])]

getMixedCaptures(userId, contextItems) ==
  LET collectionCaptures == getCollectionCaptures(userId, contextItems)
      specificCaptures == getSpecificCaptures(userId, contextItems)
  IN NewSet(collectionCaptures \o specificCaptures)

resolve(userId, contextType, contextItems) ==
  CASE contextType = "all" -> getAllUserCaptures(userId)
    [] contextType = "collection" -> getCollectionCaptures(userId, contextItems)
    [] contextType = "bookmarks" -> getBookmarkedCaptures(userId)
    [] contextType = "specific" -> getSpecificCaptures(userId, contextItems)
    [] contextType = "mixed" -> getMixedCaptures(userId, contextItems)
    [] OTHER -> <<>>

(***************************************************************************)
(* The limited policies over a large collection of captures.               *)
(***************************************************************************)
\* n stored captures; "own": all of u1, active and bookmarked; "shared":
\* every fourth of u2; "mixed": every seventh archived, every third not
\* bookmarked
ManyCaptures(n, kind) ==
  [i \in 1..n |->
     [owner |-> IF kind = "shared" /\ i % 4 = 0 THEN "u2" ELSE "u1",
      status |-> IF kind = "mixed" /\ i % 7 = 0 THEN "archived" ELSE "active",
      bookmarked |-> ~(kind = "mixed" /\ i % 3 = 0)]]

\* the sizes of the stored collection: small, and around each limit
StoredSizes ==
  (0..NumCaptures)
    \cup (BookmarkLimit - 1 .. BookmarkLimit + 2)
    \cup (AllLimit - 1 .. AllLimit + 2)

StoredCaptures ==
  {ManyCaptures(n, kind) : n \in StoredSizes, kind \in {"own", "shared", "mixed"}}

LimitedPolicies == {"all", "bookmarks"}

\* what the user owns that the policy's filter matches
MatchingOf(stored, userId, policy) ==
  {c \in 1..Len(stored) :
     /\ stored[c].owner = userId
     /\ stored[c].status = "active"
     /\ policy = "bookmarks" => stored[c].bookmarked}

(***************************************************************************)
(* Context aggregation.  env is what the collaborators do during the call: *)
(* env.db = "fail" when a storage query rejects; env.search = "raise" when *)
(* searchSimilar rejects, otherwise it yields env.hits results (at most    *)
(* limit of them), one per requested document in order.                    *)
(***************************************************************************)
buildSourcesMetadata(captureIds, contextType) ==
  IF Len(captureIds) = 0 THEN <<>>
  ELSE LET match(c) == c \in Vals(captureIds)
           found == CaptureFind({c \in CaptureIds : match(c)})
       IN [i \in 1..Len(found) |->
             [id |-> found[i],
              type |-> "capture",
              \* relevanceScore in tenths: 0.5 for "all", 1.0 otherwise
              relevanceScore |-> IF contextType = "all" THEN 5 ELSE 10]]

searchSimilar(documentIds, limit, env) ==
  LET n == Min(Min(env.hits, limit), Len(documentIds))
  IN [i \in 1..n |-> [documentId |-> documentIds[i], score |-> 1]]

\* the mapping of the search results into fragments
mapSearchResults(captureIds, limit, env) ==
  LET documentIds == [i \in 1..Len(captureIds) |-> captureIds[i].val]
      searchResults == searchSimilar(documentIds, limit, env)
  IN [i \in 1..Len(searchResults) |->
        [sourceId |-> searchResults[i].documentId,
         sourceType |-> "capture",
         similarity |-> searchResults[i].score]]

\* mutant: the guard on an empty identifier list is missing
performMultiSourceSearchNoGuard(captureIds, limit, env) ==
  IF env.search = "raise"
  THEN [chunks |-> <<>>, searchInvoked |-> TRUE, thrown |-> FALSE]
  ELSE [chunks |-> mapSearchResults(captureIds, limit, env),
        searchInvoked |-> TRUE, thrown |-> FALSE]

\* mutant: a failure of searchSimilar is not caught
performMultiSourceSearchRethrow(captureIds, limit, env) ==
  IF Len(captureIds) = 0
  THEN [chunks |-> <<>>, searchInvoked |-> FALSE, thrown |-> FALSE]
  ELSE IF env.search = "raise"
       THEN [chunks |-> <<>>, searchInvoked |-> TRUE, thrown |-> TRUE]
       ELSE [chunks |-> mapSearchResults(captureIds, limit, env),
             searchInvoked |-> TRUE, thrown |-> FALSE]

performMultiSourceSearch(captureIds, limit, env) ==
  IF Len(captureIds) = 0
  THEN [chunks |-> <<>>, searchInvoked |-> FALSE, thrown |-> FALSE]
  ELSE IF env.search = "raise"
       THEN \* caught and logged: an empty list is returned
            [chunks |-> <<>>, searchInvoked |-> TRUE, thrown |-> FALSE]
       ELSE [chunks |-> mapSearchResults(captureIds, limit, env),
             searchInvoked |-> TRUE, thrown |-> FALSE]

\* query.filters?.limit || 20: an absent limit and a limit of 0 are both falsy
SearchLimit(query) == IF query.limit = 0 THEN DefaultSearchLimit ELSE query.limit

aggregateContext(query, env) ==
  IF env.db = "fail"
  THEN [outcome |-> "thrown", searchInvoked |-> FALSE]
  ELSE LET captureIds == resolve(query.userId, query.contextType, query.contextItems)
           sources == buildSourcesMetadata(captureIds, query.contextType)
           search == performMultiSourceSearch(captureIds, SearchLimit(query), env)
       IN IF search.thrown
          THEN \* the catch of aggregateContext logs and rethrows
               [outcome |-> "thrown", searchInvoked |-> search.searchInvoked]
          ELSE
          [outcome |-> "returned",
           sources |-> sources,
           retrievedChunks |-> search.chunks,
           totalSources |-> Len(captureIds),
           \* instrumentation: the resolved scope and whether searchSimilar ran
           captureIds |-> captureIds,
           searchInvoked |-> search.searchInvoked]

(***************************************************************************)
(* Inputs of an aggregation request.                                       *)
(***************************************************************************)
ContextItem == [type : {"capture"}, id : CaptureIds]
                 \cup [type : {"collection"}, id : CollectionIds]

\* The resolvers read contextItems only through filter and $in, which ignore
\* order and repetition: the lists drawn are those in increasing item order.
ItemKey(item) == IF item.type = "capture" THEN item.id ELSE NumCaptures + item.id

ContextItemLists ==
  {l \in SeqsUpTo(ContextItem, MaxItems) :
     \A i \in 1..Len(l) - 1 : ItemKey(l[i]) < ItemKey(l[i + 1])}

Limits == {0, 1}

EnvOutcomes ==
  {[db |-> "fail", search |-> "unused", hits |-> 0]}
    \cup {[db |-> "ok", search |-> "unused", hits |-> 0]}
    \cup {[db |-> "ok", search |-> "raise", hits |-> 0]}
    \cup {[db |-> "ok", search |-> "ok", hits |-> h] : h \in 0..MaxHits}

SearchOk == [db |-> "ok", search |-> "ok", hits |-> 0]

CaptureDoc == [owner : Users, status : {"active", "archived"}, bookmarked : BOOLEAN]

\* a grouping lists each of its members once
MemberLists ==
  {l \in SeqsUpTo(CaptureIds, MaxMembers) :
     \A i, j \in 1..Len(l) : i # j => l[i] # l[j]}

CollectionDoc == [user : Users, captures : MemberLists]

InitScope ==
  /\ mongo = MongoIdle
  /\ captures \in [CaptureIds -> CaptureDoc]
  /\ collections \in [CollectionIds -> CollectionDoc]
  /\ aggQuery = NoQuery
  /\ aggEnv = [db |-> "ok", search |-> "unused", hits |-> 0]
  /\ aggResult = NoResult
  /\ conversations = <<>>
  /\ sessions = <<>>
  /\ req = <<>>
  /\ lastOp = [op |-> "none"]
  /\ clock = 0

AggregateContext ==
  /\ aggQuery = NoQuery
  /\ \E u \in Users, t \in ContextTypes, items \in ContextItemLists,
        l \in Limits, env \in EnvOutcomes :
       LET query == [userId |-> u, contextType |-> t, contextItems |-> items,
                     limit |-> l]
       IN \* the search outcome is drawn only when searchSimilar is invoked
          /\ (env.search = "unused") <=>
               (env.db = "fail" \/ ~aggregateContext(query, SearchOk).searchInvoked)
          /\ aggQuery' = query
          /\ aggEnv' = env
          /\ aggResult' = aggregateContext(query, env)
  /\ UNCHANGED <<captures, collections, chatVars, dbVars>>

NextScope == AggregateContext

SpecScope == InitScope /\ [][NextScope]_vars

(***************************************************************************)
(* Conversations.  Text is a sequence of tokens; the empty sequence is the *)
(* empty string and the token " " is a blank.                              *)
(***************************************************************************)
\* Request slots: this model handles one request at a time.
\* the handler invocations in flight: two of them at most
ReqIds == {1, 2}
\* the invocation of the specifications that follow one exchange
SingleReqs == {1}
\* the seeds, one new record per request slot, one new record of the legacy
\* endpoint
ConvIds == 1..(NumSeeds + Cardinality(ReqIds) + 1)
Tokens == {"a", "b"}

NoDoc == [exists |-> FALSE]

Message(role, content, status) ==
  [role |-> role, content |-> content, status |-> status]

\* mutant: a new document is not active
NewConversationInactive(userId, messages, now) ==
  [exists |-> TRUE, userId |-> userId, title |-> <<"new conversation">>,
   messages |-> messages, isActive |-> FALSE, lastActivity |-> now,
   updatedAt |-> now]

\* new BrainChatConversation({userId, title: "new conversation", ..., messages})
\* at time now: isActive and lastActivity take their schema defaults
NewConversation(userId, messages, now) ==
  [exists |-> TRUE, userId |-> userId, title |-> <<"new conversation">>,
   messages |-> messages, isActive |-> TRUE, lastActivity |-> now,
   updatedAt |-> now]

\* The identifier of the document that the request of slot r constructs: a
\* new ObjectId, different from every identifier in use.
NewConvId(r) == NumSeeds + r

SystemMessage ==
  [role |-> "system", content |-> <<"system">>]

\* role and content of each stored message, as sent to the model
PromptOf(messages) ==
  [i \in 1..Len(messages) |->
     [role |-> messages[i].role, content |-> messages[i].content]]

\* mutant: a message with the empty string as content passes validation
ValidMessageEmptyContent(m) == m.status \in {"sent", "received"}

\* BrainChatMessageSchema: content is required, which an empty string fails,
\* and so are id and status, which come together in this model
ValidMessage(m) == m.content # <<>> /\ m.status \in {"sent", "received"}

\* BrainChatConversation.findById(conversationId)
findById(conversationId) == conversations[conversationId]

(***************************************************************************)
(* The state of one request.  mem is the in-memory document of the         *)
(* handler: the identifier, whether it is new, the messages it holds and   *)
(* how many of them were pushed after it was loaded.  log is the order of  *)
(* the observable steps of the request: "open" (the generation call),      *)
(* "chunk" (a chunk consumed), "delta"/"usage"/"done"/"error" (events      *)
(* written to the response), "end" (res.end), "save" (a completed save),   *)
(* "close" (the caller disconnected), "abort" (controller.abort),          *)
(* "complete" (the stream ended), "return"/"throw" (a service result).     *)
(***************************************************************************)
NoMem == [id |-> 0, isNew |-> FALSE, doc |-> NoDoc, pushed |-> 0]

IdleReq ==
  [pc |-> "idle", kind |-> "none", user |-> "none", messages |-> <<>>,
   convId |-> 0, mem |-> NoMem, prompt |-> <<>>, assistantText |-> <<>>, log |-> <<>>,
   closed |-> FALSE, listener |-> FALSE, aborted |-> FALSE]

Ev(e) == [e |-> e, v |-> <<>>]
EvDelta(text) == [e |-> "delta", v |-> text]

Count(log, e) == Cardinality({i \in 1..Len(log) : log[i].e = e})
Has(log, e) == \E i \in 1..Len(log) : log[i].e = e

\* mutant: the catch block writes the error event and leaves the response open
CatchStreamingLeftOpen(q) ==
  [q EXCEPT !.pc = "finished",
            !.log = q.log \o <<Ev("error")>>,
            !.listener = TRUE]

\* the catch block of a streaming handler, then the statement after it:
\* write the error event, end the response, register the close listener
CatchStreaming(q) ==
  [q EXCEPT !.pc = "finished",
            !.log = q.log \o <<Ev("error"), Ev("end")>>,
            !.listener = TRUE]

\* the catch block of a service method: log and rethrow to the caller
CatchService(q) ==
  [q EXCEPT !.pc = "finished", !.log = q.log \o <<Ev("throw")>>]

Catch(q) == IF q.kind = "startBlocking" THEN CatchService(q) ELSE CatchStreaming(q)

\* mutant: the check of the initial turns is missing
MessagesMissingUnchecked(messages) == FALSE

\* request.messages.length === 0
MessagesMissing(messages) == Len(messages) = 0

UserTurn == Message("user", <<"q">>, "sent")

StartMessages == {<<>>, <<UserTurn>>, <<Message("user", <<>>, "sent")>>}

(***************************************************************************)
(* BrainChatController.startConversation up to the first chunk: the call   *)
(* of BrainChatService.startConversationStreaming.                         *)
(***************************************************************************)
\* mutant: the new document is stored before the stream is read
StartConversationSavedFirst(r) ==
  /\ req[r].pc = "idle"
  /\ \E u \in Users, msgs \in StartMessages, opened \in BOOLEAN :
       LET q0 == [req[r] EXCEPT !.kind = "start", !.user = u, !.messages = msgs]
       IN IF MessagesMissing(msgs)
          THEN /\ req' = [req EXCEPT ![r] = CatchStreaming(q0)]
               /\ conversations' = conversations
          ELSE LET q1 == [q0 EXCEPT
                            !.mem = [id |-> NewConvId(r), isNew |-> TRUE,
                                     doc |-> NewConversation(u, msgs, clock),
                                     pushed |-> 0],
                            !.prompt = <<SystemMessage>> \o PromptOf(msgs),
                            !.log = q0.log \o <<Ev("open")>>]
               IN /\ conversations' =
                       [conversations EXCEPT ![NewConvId(r)] = q1.mem.doc]
                  /\ IF opened
                     THEN req' = [req EXCEPT ![r] = [q1 EXCEPT !.pc = "streaming"]]
                     ELSE req' = [req EXCEPT ![r] = CatchStreaming(q1)]
  /\ UNCHANGED <<aggVars, dbVars, sessions, lastOp, clock>>

StartConversation(r) ==
  /\ req[r].pc = "idle"
  /\ \E u \in Users, msgs \in StartMessages, opened \in BOOLEAN :
       LET q0 == [req[r] EXCEPT !.kind = "start", !.user = u, !.messages = msgs]
       IN IF MessagesMissing(msgs)
          THEN req' = [req EXCEPT ![r] = CatchStreaming(q0)]
          ELSE LET q1 == [q0 EXCEPT
                            !.mem = [id |-> NewConvId(r), isNew |-> TRUE,
                                     doc |-> NewConversation(u, msgs, clock),
                                     pushed |-> 0],
                            !.prompt = <<SystemMessage>> \o PromptOf(msgs),
                            !.log = q0.log \o <<Ev("open")>>]
               IN IF opened
                  THEN req' = [req EXCEPT ![r] = [q1 EXCEPT !.pc = "streaming"]]
                  ELSE req' = [req EXCEPT ![r] = CatchStreaming(q1)]
  /\ UNCHANGED <<aggVars, dbVars, conversations, sessions, lastOp, clock>>

(***************************************************************************)
(* BrainChatController.sendMessage up to the first chunk: the call of      *)
(* BrainChatService.sendMessage.                                           *)
(***************************************************************************)
\* mutant: the record is looked at only after the generation call was made
ConversationNotFoundLate(q) ==
  CatchStreaming([q EXCEPT !.log = q.log \o <<Ev("open")>>])

\* if (!conversation) throw new Error("Conversation not found"), which the
\* handler catches
ConversationNotFound(q) == CatchStreaming(q)

\* mutant: the new user turn is pushed onto the loaded document
SendMessageUserPushed(r) ==
  /\ req[r].pc = "idle"
  /\ \E u \in Users, c \in ConvIds, opened \in BOOLEAN :
       LET q0 == [req[r] EXCEPT !.kind = "send", !.user = u, !.convId = c]
           conversation == findById(c)
       IN IF ~conversation.exists
          THEN req' = [req EXCEPT ![r] = ConversationNotFound(q0)]
          ELSE LET q1 == [q0 EXCEPT
                            !.mem = [id |-> c, isNew |-> FALSE,
                                     doc |-> [conversation EXCEPT
                                                !.messages = Append(@, UserTurn)],
                                     pushed |-> 1],
                            !.prompt = <<SystemMessage>>
                                         \o PromptOf(conversation.messages)
                                         \o <<[role |-> "user", content |-> <<"q">>]>>,
                            !.log = q0.log \o <<Ev("open")>>]
               IN IF opened
                  THEN req' = [req EXCEPT ![r] = [q1 EXCEPT !.pc = "streaming"]]
                  ELSE req' = [req EXCEPT ![r] = CatchStreaming(q1)]
  /\ UNCHANGED <<aggVars, dbVars, conversations, sessions, lastOp, clock>>

SendMessage(r) ==
  /\ req[r].pc = "idle"
  /\ \E u \in Users, c \in ConvIds, opened \in BOOLEAN :
       LET q0 == [req[r] EXCEPT !.kind = "send", !.user = u, !.convId = c]
           conversation == findById(c)
       IN IF ~conversation.exists
          THEN req' = [req EXCEPT ![r] = ConversationNotFound(q0)]
          ELSE LET q1 == [q0 EXCEPT
                            !.mem = [id |-> c, isNew |-> FALSE,
                                     doc |-> conversation, pushed |-> 0],
                            !.prompt = <<SystemMessage>>
                                         \o PromptOf(conversation.messages)
                                         \o <<[role |-> "user", content |-> <<"q">>]>>,
                            !.log = q0.log \o <<Ev("open")>>]
               IN IF opened
                  THEN req' = [req EXCEPT ![r] = [q1 EXCEPT !.pc = "streaming"]]
                  ELSE req' = [req EXCEPT ![r] = CatchStreaming(q1)]
  /\ UNCHANGED <<aggVars, dbVars, conversations, sessions, lastOp, clock>>

(***************************************************************************)
(* Chunks of the generation stream: an error payload, a text delta (empty  *)
(* when the chunk carries none) and whether usage data is attached.        *)
(***************************************************************************)
Chunk(error, delta, usage) == [error |-> error, delta |-> delta, usage |-> usage]

Chunks ==
  {Chunk(FALSE, <<"a">>, FALSE), Chunk(FALSE, <<"b">>, FALSE),
   Chunk(FALSE, <<>>, TRUE), Chunk(FALSE, <<"a">>, TRUE),
   Chunk(TRUE, <<"a">>, TRUE)}

\* a chunk consumed: the log entry tells whether it carried an error payload,
\* and otherwise the text delta it carried
EvChunk(chunk) ==
  [e |-> "chunk", v |-> IF chunk.error THEN <<"error">> ELSE chunk.delta]

\* mutant: the error payload of a chunk is not looked at
ChunkFailsIgnored(chunk) == FALSE

\* if (chunk.error) throw new Error(chunk.error.message)
ChunkFails(chunk) == chunk.error

\* mutant: a delta is put in front of the text accumulated so far
ConsumeChunkPrepended(r) ==
  /\ req[r].pc = "streaming"
  /\ ~req[r].aborted
  /\ Count(req[r].log, "chunk") < MaxChunks
  /\ \E chunk \in Chunks :
       LET q0 == [req[r] EXCEPT !.log = req[r].log \o <<EvChunk(chunk)>>]
       IN IF ChunkFails(chunk)
          THEN req' = [req EXCEPT ![r] = CatchStreaming(q0)]
          ELSE LET q1 == IF chunk.delta # <<>>
                         THEN [q0 EXCEPT
                                 !.assistantText = chunk.delta \o q0.assistantText,
                                 !.log = q0.log \o <<EvDelta(chunk.delta)>>]
                         ELSE q0
                   q2 == IF chunk.usage
                         THEN [q1 EXCEPT !.log = q1.log \o <<Ev("usage")>>]
                         ELSE q1
               IN req' = [req EXCEPT ![r] = q2]
  /\ UNCHANGED <<aggVars, dbVars, conversations, sessions, lastOp, clock>>

\* one iteration of "for await (const chunk of stream)"
ConsumeChunk(r) ==
  /\ req[r].pc = "streaming"
  /\ ~req[r].aborted
  /\ Count(req[r].log, "chunk") < MaxChunks
  /\ \E chunk \in Chunks :
       LET q0 == [req[r] EXCEPT !.log = req[r].log \o <<EvChunk(chunk)>>]
       IN IF ChunkFails(chunk)
          THEN req' = [req EXCEPT ![r] = CatchStreaming(q0)]
          ELSE LET q1 == IF chunk.delta # <<>>
                         THEN [q0 EXCEPT
                                 !.assistantText = q0.assistantText \o chunk.delta,
                                 !.log = q0.log \o <<EvDelta(chunk.delta)>>]
                         ELSE q0
                   q2 == IF chunk.usage
                         THEN [q1 EXCEPT !.log = q1.log \o <<Ev("usage")>>]
                         ELSE q1
               IN req' = [req EXCEPT ![r] = q2]
  /\ UNCHANGED <<aggVars, dbVars, conversations, sessions, lastOp, clock>>

\* mutant: a stream that raises is opened again
StreamRaiseRetried(r) ==
  /\ req[r].pc = "streaming"
  /\ req' = [req EXCEPT ![r] =
               [req[r] EXCEPT !.log = req[r].log \o <<Ev("open")>>]]
  /\ UNCHANGED <<aggVars, dbVars, conversations, sessions, lastOp, clock>>

\* the stream rejects: a transport failure, or the abort of its signal
StreamRaise(r) ==
  /\ req[r].pc = "streaming"
  /\ req' = [req EXCEPT ![r] = CatchStreaming(req[r])]
  /\ UNCHANGED <<aggVars, dbVars, conversations, sessions, lastOp, clock>>

\* the loop ends: conversation.messages.push({role: "assistant", ...}),
\* then the handler awaits conversation.save()
StreamEnd(r) ==
  /\ req[r].pc = "streaming"
  /\ ~req[r].aborted
  /\ LET q == req[r]
         turn == Message("assistant", q.assistantText, "received")
     IN req' = [req EXCEPT ![r] =
                  [q EXCEPT !.pc = "saving",
                            !.log = q.log \o <<Ev("complete")>>,
                            !.mem = [q.mem EXCEPT
                                       !.doc.messages = Append(q.mem.doc.messages, turn),
                                       !.pushed = q.mem.pushed + 1]]]
  /\ UNCHANGED <<aggVars, dbVars, conversations, sessions, lastOp, clock>>

(***************************************************************************)
(* Document.save(): validation of the document, then an insert of a new    *)
(* document, or for a loaded one a $push of the messages pushed since it   *)
(* was loaded, which rejects when the document is no longer stored.        *)
(***************************************************************************)
LastN(s, n) == SubSeq(s, Len(s) - n + 1, Len(s))

SaveAccepted(mem) ==
  /\ \A i \in 1..Len(mem.doc.messages) : ValidMessage(mem.doc.messages[i])
  /\ mem.isNew \/ conversations[mem.id].exists

\* mutant: the save of a loaded document writes back the messages it holds
SavedWholeDocument(mem) ==
  [conversations EXCEPT
     ![mem.id] = [mem.doc EXCEPT !.lastActivity = clock, !.updatedAt = clock]]

\* pre('save') sets lastActivity, the timestamps option sets updatedAt
Saved(mem) ==
  IF mem.isNew
  THEN [conversations EXCEPT
          ![mem.id] = [mem.doc EXCEPT !.lastActivity = clock, !.updatedAt = clock]]
  ELSE [conversations EXCEPT
          ![mem.id].messages = conversations[mem.id].messages
                                 \o LastN(mem.doc.messages, mem.pushed),
          ![mem.id].lastActivity = clock,
          ![mem.id].updatedAt = clock]

\* mutant: the save of a loaded document writes the whole document back
\* whether it is still stored or not
DocumentSaveUpsert(mem) ==
  IF \A i \in 1..Len(mem.doc.messages) : ValidMessage(mem.doc.messages[i])
  THEN [ok |-> TRUE,
        store |-> [conversations EXCEPT
                     ![mem.id] = [mem.doc EXCEPT !.lastActivity = clock,
                                                 !.updatedAt = clock]]]
  ELSE [ok |-> FALSE, store |-> conversations]

\* conversation.save(): whether it resolved, and the store afterwards
DocumentSave(mem) ==
  IF SaveAccepted(mem)
  THEN [ok |-> TRUE, store |-> Saved(mem)]
  ELSE [ok |-> FALSE, store |-> conversations]

\* the continuation after "await conversation.save()": the streaming handlers
\* go on to the done event, the service method returns the conversation
AfterSave(q) ==
  IF q.kind = "startBlocking"
  THEN [q EXCEPT !.pc = "finished", !.log = q.log \o <<Ev("save"), Ev("return")>>]
  ELSE [q EXCEPT !.pc = "saved", !.log = q.log \o <<Ev("save")>>]

\* mutant: the handler goes on to the done event without awaiting the save
SaveConversationNotAwaited(r) ==
  /\ req[r].pc = "saving"
  /\ req' = [req EXCEPT ![r] = [req[r] EXCEPT !.pc = "saved"]]
  /\ UNCHANGED <<aggVars, dbVars, conversations, sessions, lastOp, clock>>

SaveConversation(r) ==
  /\ req[r].pc = "saving"
  /\ \E storageOk \in BOOLEAN :
       IF storageOk /\ DocumentSave(req[r].mem).ok
       THEN /\ conversations' = DocumentSave(req[r].mem).store
            /\ req' = [req EXCEPT ![r] = AfterSave(req[r])]
       ELSE /\ conversations' = conversations
            /\ req' = [req EXCEPT ![r] = Catch(req[r])]
  /\ UNCHANGED <<aggVars, dbVars, sessions, lastOp, clock>>

\* res.write(done), res.end(), then the registration of the close listener
CompleteResponse(r) ==
  /\ req[r].pc = "saved"
  /\ req' = [req EXCEPT ![r] =
               [req[r] EXCEPT !.pc = "finished",
                              !.log = req[r].log \o <<Ev("done"), Ev("end")>>,
                              !.listener = TRUE]]
  /\ UNCHANGED <<aggVars, dbVars, conversations, sessions, lastOp, clock>>

\* the caller closes the connection: the "close" event of the request, which
\* runs controller.abort() when the listener is registered
Disconnect(r) ==
  /\ req[r].pc # "idle"
  /\ req[r].kind # "startBlocking"
  /\ ~req[r].closed
  /\ req' = [req EXCEPT ![r] =
               [req[r] EXCEPT
                  !.closed = TRUE,
                  !.aborted = req[r].listener,
                  !.log = req[r].log \o <<Ev("close")>>
                            \o (IF req[r].listener THEN <<Ev("abort")>> ELSE <<>>)]]
  /\ UNCHANGED <<aggVars, dbVars, conversations, sessions, lastOp, clock>>

(***************************************************************************)
(* BrainChatService.startConversation, the blocking variant: the request   *)
(* to the model, then its reply and the save.                              *)
(***************************************************************************)
\* mutant: the new document is saved before the model is asked
StartConversationBlockingSavedFirst(r) ==
  /\ req[r].pc = "idle"
  /\ \E u \in Users, msgs \in StartMessages :
       LET q0 == [req[r] EXCEPT !.kind = "startBlocking", !.user = u,
                                !.messages = msgs]
           mem == [id |-> NewConvId(r), isNew |-> TRUE,
                   doc |-> NewConversation(u, msgs, clock), pushed |-> 0]
       IN IF MessagesMissing(msgs)
          THEN /\ req' = [req EXCEPT ![r] = CatchService(q0)]
               /\ conversations' = conversations
          ELSE /\ req' = [req EXCEPT ![r] =
                            [q0 EXCEPT
                               !.pc = "awaitingModel",
                               !.mem = mem,
                               !.prompt = <<SystemMessage>> \o PromptOf(msgs),
                               !.log = q0.log \o <<Ev("open")>>]]
               /\ conversations' = [conversations EXCEPT ![mem.id] = mem.doc]
  /\ UNCHANGED <<aggVars, dbVars, sessions, lastOp, clock>>

StartConversationBlocking(r) ==
  /\ req[r].pc = "idle"
  /\ \E u \in Users, msgs \in StartMessages :
       LET q0 == [req[r] EXCEPT !.kind = "startBlocking", !.user = u,
                                !.messages = msgs]
       IN IF MessagesMissing(msgs)
          THEN req' = [req EXCEPT ![r] = CatchService(q0)]
          ELSE req' = [req EXCEPT ![r] =
                         [q0 EXCEPT
                            !.pc = "awaitingModel",
                            !.mem = [id |-> NewConvId(r), isNew |-> TRUE,
                                     doc |-> NewConversation(u, msgs, clock),
                                     pushed |-> 0],
                            !.prompt = <<SystemMessage>> \o PromptOf(msgs),
                            !.log = q0.log \o <<Ev("open")>>]]
  /\ UNCHANGED <<aggVars, dbVars, conversations, sessions, lastOp, clock>>

ModelReplies == {<<>>, <<"a">>}

\* openRouter.chat.send resolves or rejects; a non-empty reply is pushed
ModelReply(r) ==
  /\ req[r].pc = "awaitingModel"
  /\ \E ok \in BOOLEAN, aiResponse \in ModelReplies :
       LET q == req[r]
           turn == Message("assistant", aiResponse, "received")
       IN IF ~ok
          THEN req' = [req EXCEPT ![r] = CatchService(q)]
          ELSE req' = [req EXCEPT ![r] =
                         [q EXCEPT
                            !.pc = "saving",
                            !.assistantText = aiResponse,
                            !.mem = IF aiResponse # <<>>
                                    THEN [q.mem EXCEPT
                                            !.doc.messages =
                                              Append(q.mem.doc.messages, turn),
                                            !.pushed = q.mem.pushed + 1]
                                    ELSE q.mem]]
  /\ UNCHANGED <<aggVars, dbVars, conversations, sessions, lastOp, clock>>

(***************************************************************************)
(* Owner-scoped operations on stored records.                              *)
(***************************************************************************)
SessionIds == 1..NumSessions
NoUser == "none"
InvalidId == 0

NoOp == [op |-> "none"]

\* mutant: the filter names the identifier only
findOneAndDeleteById(store, id, userId) ==
  IF store[id].exists
  THEN [store |-> [store EXCEPT ![id] = NoDoc], result |-> store[id]]
  ELSE [store |-> store, result |-> NoDoc]

\* Model.findOneAndDelete({_id, userId}): the store afterwards and the
\* document deleted, if any
findOneAndDelete(store, id, userId) ==
  IF store[id].exists /\ store[id].userId = userId
  THEN [store |-> [store EXCEPT ![id] = NoDoc], result |-> store[id]]
  ELSE [store |-> store, result |-> NoDoc]

\* Model.deleteOne({_id, userId}): the store afterwards
deleteOne(store, id, userId) ==
  IF store[id].exists /\ store[id].userId = userId
  THEN [store EXCEPT ![id] = NoDoc]
  ELSE store

\* BrainChatController.deleteSession: the store afterwards and the response
deleteSession(store, user, sessionId) ==
  IF user = NoUser
  THEN [store |-> store, status |-> 401, body |-> "User not authenticated"]
  ELSE IF sessionId = InvalidId
  THEN [store |-> store, status |-> 400, body |-> "Valid session ID is required"]
  ELSE LET deleted == findOneAndDelete(store, sessionId, user)
       IN IF ~deleted.result.exists
          THEN [store |-> deleted.store, status |-> 404, body |-> "Session not found"]
          ELSE [store |-> deleted.store, status |-> 200,
                body |-> "Session deleted successfully"]

\* BrainChatService.deleteConversation: resolves to nothing
deleteConversation(store, conversationId, userId) ==
  [store |-> deleteOne(store, conversationId, userId), status |-> 0, body |-> "void"]

\* String.prototype.trim on a text of blanks and letters
RECURSIVE TrimStart(_)
TrimStart(t) ==
  IF t # <<>> /\ Head(t) = " " THEN TrimStart(Tail(t)) ELSE t

RECURSIVE TrimEnd(_)
TrimEnd(t) ==
  IF t # <<>> /\ t[Len(t)] = " " THEN TrimEnd(SubSeq(t, 1, Len(t) - 1)) ELSE t

Trim(t) == TrimEnd(TrimStart(t))

TitleChars == {" ", "x"}

\* a title of n characters that ends in a blank
PaddedTitle(n) == [i \in 1..n |-> IF i = n THEN " " ELSE "x"]

\* the short titles, and titles at and just above the length limit
Titles ==
  SeqsUpTo(TitleChars, MaxTitle)
    \cup {PaddedTitle(MaxTitleLength), PaddedTitle(MaxTitleLength + 1)}

\* mutant: the record is matched by its identifier alone
findOneAndUpdateById(store, id, userId, title, now) ==
  IF store[id].exists
  THEN LET updated == [store[id] EXCEPT !.title = title, !.updatedAt = now]
       IN [store |-> [store EXCEPT ![id] = updated], result |-> updated]
  ELSE [store |-> store, result |-> NoDoc]

\* Model.findOneAndUpdate({_id, userId}, {title}, {new: true}) at time now:
\* the timestamps option sets updatedAt; no save hook runs
findOneAndUpdate(store, id, userId, title, now) ==
  IF store[id].exists /\ store[id].userId = userId
  THEN LET updated == [store[id] EXCEPT !.title = title, !.updatedAt = now]
       IN [store |-> [store EXCEPT ![id] = updated], result |-> updated]
  ELSE [store |-> store, result |-> NoDoc]

\* BrainChatController.updateSessionTitle: the store afterwards and the
\* response
updateSessionTitle(store, user, sessionId, title, now) ==
  IF user = NoUser
  THEN [store |-> store, status |-> 401, body |-> "User not authenticated"]
  ELSE IF sessionId = InvalidId
  THEN [store |-> store, status |-> 400, body |-> "Valid session ID is required"]
  ELSE IF Trim(title) = <<>> \/ Len(title) > MaxTitleLength
  THEN [store |-> store, status |-> 400,
        body |-> "Valid title (1-200 characters) is required"]
  ELSE LET session == findOneAndUpdate(store, sessionId, user, Trim(title), now)
       IN IF ~session.result.exists
          THEN [store |-> session.store, status |-> 404, body |-> "Session not found"]
          ELSE [store |-> session.store, status |-> 200, body |-> "session"]

UpdateSessionTitle ==
  \E user \in Users \cup {NoUser}, sessionId \in SessionIds \cup {InvalidId},
     title \in Titles :
    LET out == updateSessionTitle(sessions, user, sessionId, title, clock)
    IN /\ sessions' = out.store
       /\ lastOp' = [op |-> "updateSessionTitle", user |-> user, id |-> sessionId,
                     title |-> title, before |-> sessions,
                     status |-> out.status, body |-> out.body]
       /\ UNCHANGED <<aggVars, dbVars, conversations, req, clock>>

DeleteSession ==
  \E user \in Users \cup {NoUser}, sessionId \in SessionIds \cup {InvalidId} :
    LET out == deleteSession(sessions, user, sessionId)
    IN /\ sessions' = out.store
       /\ lastOp' = [op |-> "deleteSession", user |-> user, id |-> sessionId,
                     before |-> sessions, status |-> out.status, body |-> out.body]
       /\ UNCHANGED <<aggVars, dbVars, conversations, req, clock>>

DeleteConversation ==
  \E userId \in Users, conversationId \in ConvIds :
    LET out == deleteConversation(conversations, conversationId, userId)
    IN /\ conversations' = out.store
       /\ lastOp' = [op |-> "deleteConversation", user |-> userId,
                     id |-> conversationId, before |-> conversations,
                     status |-> out.status, body |-> out.body]
       /\ UNCHANGED <<aggVars, dbVars, sessions, req, clock>>

(***************************************************************************)
(* The listings.  The stored collection at the time of the call is an      *)
(* input: a sequence of records in insertion order, whose identifiers are  *)
(* their positions.  Only the fields that the queries read or select are   *)
(* kept.                                                                   *)
(***************************************************************************)
ListedRecord(id, userId, lastActivity) ==
  [id |-> id, userId |-> userId, lastActivity |-> lastActivity]

\* select('title createdAt lastActivity messages'): the owner is not selected
Select(doc) == [id |-> doc.id, lastActivity |-> doc.lastActivity]

\* find({userId})
Find(collection, userId) ==
  SelectSeq(collection, LAMBDA doc : doc.userId = userId)

\* a comes before b under sort({lastActivity: -1}); storage does not say in
\* which order it returns records of equal lastActivity, tie is that order
Before(a, b, tie) ==
  \/ a.lastActivity > b.lastActivity
  \/ /\ a.lastActivity = b.lastActivity
     /\ IF tie = "insertion" THEN a.id < b.id ELSE a.id > b.id

\* mutant: the records are sorted by ascending lastActivity
SortOldestFirst(docs, tie) ==
  [k \in 1..Len(docs) |->
     CHOOSE a \in Range(docs) :
       Cardinality({b \in Range(docs) : Before(a, b, tie)}) = k - 1]

\* sort({lastActivity: -1})
SortByLastActivity(docs, tie) ==
  [k \in 1..Len(docs) |->
     CHOOSE a \in Range(docs) :
       Cardinality({b \in Range(docs) : Before(b, a, tie)}) = k - 1]

Project(docs) == [k \in 1..Len(docs) |-> Select(docs[k])]

\* BrainChatService.conversationsList(userId)
conversationsList(collection, userId, tie) ==
  Project(SortByLastActivity(Find(collection, userId), tie))

\* BrainChatService.listUserSessions(userId, limit)
listUserSessions(collection, userId, limit, tie) ==
  Project(Take(SortByLastActivity(Find(collection, userId), tie), limit))

\* the limit of the query string: given tells whether there is one
QueryLimit(given, value) == [given |-> given, value |-> value]

\* Math.min(parseInt(req.query.limit) || 20, 50)
SessionLimit(limit) ==
  Min(IF limit.given /\ limit.value # 0 THEN limit.value ELSE DefaultListLimit,
      MaxListLimit)

\* BrainChatController.listSessions
listSessions(collection, user, limit, tie) ==
  IF user = NoUser
  THEN [status |-> 401, sessions |-> <<>>]
  ELSE [status |-> 200,
        sessions |-> listUserSessions(collection, user, SessionLimit(limit), tie)]

\* the collections of up to MaxListed records
SmallCollections ==
  UNION {{[i \in 1..n |-> ListedRecord(i, owner[i], activity[i])] :
            owner \in [1..n -> Users], activity \in [1..n -> 0..MaxTime]} :
         n \in 0..MaxListed}

\* n records of one user, whose lastActivity alternates
Crowded(n) == [i \in 1..n |-> ListedRecord(i, "u1", i % 2)]

\* the small collections, and collections just above the default limit and
\* above the largest limit
Collections ==
  SmallCollections \cup {Crowded(DefaultListLimit + 1), Crowded(MaxListLimit + 1)}

QueryLimits ==
  {QueryLimit(FALSE, 0)}
    \cup {QueryLimit(TRUE, v) : v \in {0, 1, 2, MaxListLimit + 1}}

TieOrders == {"insertion", "reverse"}

ListSessions ==
  /\ lastOp = NoOp
  /\ \E collection \in Collections, user \in Users \cup {NoUser},
        limit \in QueryLimits, tie \in TieOrders :
       LET out == listSessions(collection, user, limit, tie)
       IN lastOp' = [op |-> "listSessions", user |-> user, limit |-> limit,
                     collection |-> collection, status |-> out.status,
                     result |-> out.sessions]
  /\ UNCHANGED <<aggVars, dbVars, conversations, sessions, req, clock>>

ConversationsList ==
  /\ lastOp = NoOp
  /\ \E collection \in Collections, user \in Users, tie \in TieOrders :
       lastOp' = [op |-> "conversationsList", user |-> user,
                  collection |-> collection, status |-> 200,
                  result |-> conversationsList(collection, user, tie)]
  /\ UNCHANGED <<aggVars, dbVars, conversations, sessions, req, clock>>

(***************************************************************************)
(* The legacy brain-chat endpoint: BrainChatController.processMessage and  *)
(* BrainChatService.processBrainChat.  calls is the sequence of the        *)
(* collaborators called, in order: "storage", "retrieval", "generation".   *)
(***************************************************************************)
NoSession == 0

\* the identifier of the record that createNewSession persists
NewSessionId == NumSeeds + Cardinality(ReqIds) + 1

\* t.split(' '): the pieces between blanks, empty pieces included
RECURSIVE SplitBlank(_)
SplitBlank(t) ==
  IF \A i \in 1..Len(t) : t[i] # " "
  THEN <<t>>
  ELSE LET i == CHOOSE k \in 1..Len(t) :
                  t[k] = " " /\ \A j \in 1..(k - 1) : t[j] # " "
       IN <<SubSeq(t, 1, i - 1)>> \o SplitBlank(SubSeq(t, i + 1, Len(t)))

\* ws.join(' ')
RECURSIVE JoinBlank(_)
JoinBlank(ws) ==
  IF ws = <<>> THEN <<>>
  ELSE IF Len(ws) = 1 THEN ws[1]
  ELSE ws[1] \o <<" ">> \o JoinBlank(Tail(ws))

generateSessionTitle(firstMessage) ==
  LET words == JoinBlank(Take(SplitBlank(firstMessage), TitleWords))
  IN IF Len(words) > TitleLimit
     THEN SubSeq(words, 1, TitleKeep) \o <<".", ".", ".">>
     ELSE words

\* n words of w characters each, separated by single blanks
SpacedWords(n, w) ==
  [i \in 1..(n * (w + 1) - 1) |-> IF i % (w + 1) = 0 THEN " " ELSE "x"]

\* the first messages: the short texts, and texts of five and six words
\* whose first five words joined are at, and above, the title limit
FirstMessages ==
  SeqsUpTo(TitleChars, MaxMessage)
    \cup {SpacedWords(n, w) : n \in {TitleWords, TitleWords + 1},
                             w \in {TitleLimit \div TitleWords - 1,
                                    TitleLimit \div TitleWords}}
    \cup {SpacedWords(1, TitleLimit), SpacedWords(1, TitleLimit + 1)}

GenerateSessionTitle ==
  /\ lastOp = NoOp
  /\ \E firstMessage \in FirstMessages :
       lastOp' = [op |-> "generateSessionTitle", message |-> firstMessage,
                  title |-> generateSessionTitle(firstMessage)]
  /\ UNCHANGED <<aggVars, dbVars, conversations, sessions, req, clock>>

(***************************************************************************)
(* The prompt of a generation (brainChatService.ts).  A text is the        *)
(* sequence of its pieces: the literal parts of the template and the       *)
(* interpolated values, numbers and identifiers in their decimal form.     *)
(***************************************************************************)
\* .slice(0, 10): the number of fragments that enter the prompt
PromptChunks == 10

FromOpen == "[From: "

FromClose == "]\n"

ChunkSeparator == "\n\n---\n\n"

\* `[From: ${chunk.sourceId}]\n${chunk.text}`
renderChunk(chunk) ==
  <<FromOpen, ToString(chunk.sourceId), FromClose, chunk.text>>

\* Array.prototype.join of rendered pieces
RECURSIVE JoinWith(_, _)
JoinWith(parts, sep) ==
  IF parts = <<>> THEN <<>>
  ELSE IF Len(parts) = 1 THEN Head(parts)
  ELSE Head(parts) \o <<sep>> \o JoinWith(Tail(parts), sep)

\* mutant: every fragment is rendered
buildContextStringAll(aggregatedContext) ==
  LET retrieved == aggregatedContext.retrievedChunks
  IN IF Len(retrieved) = 0
     THEN <<"No relevant information found across ",
            ToString(aggregatedContext.totalSources), " sources.">>
     ELSE <<"Found ", ToString(Len(retrieved)),
            " relevant pieces of information from ",
            ToString(Len(aggregatedContext.sources)), " sources:\n\n">>
            \o JoinWith([i \in 1..Len(retrieved) |-> renderChunk(retrieved[i])],
                        ChunkSeparator)

buildContextString(aggregatedContext) ==
  LET retrieved == aggregatedContext.retrievedChunks
      top == Take(retrieved, PromptChunks)
  IN IF Len(retrieved) = 0
     THEN <<"No relevant information found across ",
            ToString(aggregatedContext.totalSources), " sources.">>
     ELSE <<"Found ", ToString(Len(retrieved)),
            " relevant pieces of information from ",
            ToString(Len(aggregatedContext.sources)), " sources:\n\n">>
            \o JoinWith([i \in 1..Len(top) |-> renderChunk(top[i])],
                        ChunkSeparator)

\* `${msg.role.toUpperCase()}: ${msg.content}`
renderMessage(msg) ==
  <<(IF msg.role = "user" THEN "USER" ELSE "ASSISTANT"), ": ", msg.content>>

buildBrainChatPrompt(messages, contextString, sourceCount) ==
  <<"You are an intelligent knowledge assistant",
    "CONTEXT INFORMATION (", ToString(sourceCount), " sources searched):\n">>
    \o contextString
    \o <<"\n\nCONVERSATION HISTORY:\n">>
    \o JoinWith([i \in 1..Len(messages) |-> renderMessage(messages[i])], "\n\n")
    \o <<"\n\nINSTRUCTIONS:", "\n\nASSISTANT: ">>

\* the prompt generateBrainChatResponse hands to the model
brainChatPrompt(messages, aggregatedContext) ==
  buildBrainChatPrompt(messages, buildContextString(aggregatedContext),
                       Len(aggregatedContext.sources))

\* payload?.text || '': a fragment without text carries the empty text
ChunkTexts == {"", "t"}

RetrievedChunk(sourceId, text) ==
  [text |-> text, sourceId |-> sourceId, sourceType |-> "capture",
   similarity |-> 1]

\* n fragments of n different sources, in the order of retrieval
ManyChunks(n) ==
  [i \in 1..n |-> RetrievedChunk(i, IF i % 2 = 0 THEN "t" ELSE "")]

\* the retrievals: the short ones, and those at and above the prompt's limit
Retrievals ==
  SeqsUpTo({RetrievedChunk(id, text) : id \in CaptureIds, text \in ChunkTexts},
           MaxChunks)
    \cup {ManyChunks(n) : n \in PromptChunks - 1 .. PromptChunks + 2}

SourceLists == {[i \in 1..k |-> [id |-> i]] : k \in 0..NumCaptures}

PromptMessages ==
  {<<[role |-> "user", content |-> "m"]>>,
   <<[role |-> "user", content |-> "m"],
     [role |-> "assistant", content |-> "a"],
     [role |-> "user", content |-> "m"]>>}

GenerateBrainChatResponse ==
  /\ lastOp = NoOp
  /\ \E retrievedChunks \in Retrievals, sources \in SourceLists,
        totalSources \in 0..NumCaptures, messages \in PromptMessages :
       LET aggregatedContext ==
             [retrievedChunks |-> retrievedChunks, sources |-> sources,
              totalSources |-> totalSources]
       IN lastOp' = [op |-> "generateBrainChatResponse",
                     messages |-> messages,
                     retrievedChunks |-> retrievedChunks,
                     sources |-> sources,
                     prompt |-> brainChatPrompt(messages, aggregatedContext)]
  /\ UNCHANGED <<aggVars, dbVars, conversations, sessions, req, clock>>

\* createNewSession(request): a new record with the derived title, no turn
\* and the active flag set
createNewSession(store, request, now) ==
  [store EXCEPT
     ![NewSessionId] =
       [exists |-> TRUE, userId |-> request.userId,
        title |-> generateSessionTitle(request.message), messages |-> <<>>,
        isActive |-> TRUE, lastActivity |-> now, updatedAt |-> now]]

\* the two turns that updateSessionWithMessages pushes: role, content,
\* timestamp and, for the assistant turn, contextUsed; no id and no status
SessionTurns(userMessage, aiResponse, aggregatedContext) ==
  <<[role |-> "user", content |-> userMessage, status |-> "none"],
    [role |-> "assistant", content |-> aiResponse, status |-> "none",
     contextUsed |->
       [sources |-> [i \in 1..Len(aggregatedContext.sources) |->
                       aggregatedContext.sources[i].id],
        retrievedChunks |-> Len(aggregatedContext.retrievedChunks)]]>>

\* updateSessionWithMessages: the turns are pushed and the record is saved;
\* saveOk is whether storage accepts the save, which the schema's validation
\* precedes
updateSessionWithMessages(store, sid, turns, saveOk, now) ==
  LET messages == store[sid].messages \o turns
  IN IF saveOk /\ \A i \in 1..Len(messages) : ValidMessage(messages[i])
     THEN [ok |-> TRUE,
           store |-> [store EXCEPT ![sid].messages = messages,
                                   ![sid].lastActivity = now,
                                   ![sid].updatedAt = now]]
     ELSE [ok |-> FALSE, store |-> store]

\* mutant: the user turn is stored before the model is asked
processBrainChatFromUserFirst(store, sid, calls, request, env, now, agg) ==
  LET calls2 == calls \o <<"storage">>
                  \o (IF agg.searchInvoked THEN <<"retrieval">> ELSE <<>>)
      calls3 == calls2 \o <<"generation">>
      withUser == [store EXCEPT
                     ![sid].messages = @ \o <<Message("user", request.message, "sent")>>]
  IN IF agg.outcome = "thrown"
     THEN [outcome |-> "thrown", store |-> store, calls |-> calls2]
     ELSE [outcome |-> "thrown", store |-> withUser, calls |-> calls3]

\* processBrainChat from the aggregation on: store is the storage and calls
\* the collaborator calls after the session was loaded or created, agg the
\* result of aggregateContext
processBrainChatFrom(store, sid, calls, request, env, now, agg) ==
  LET calls2 == calls \o <<"storage">>
                  \o (IF agg.searchInvoked THEN <<"retrieval">> ELSE <<>>)
      calls3 == calls2 \o <<"generation">>
      saved == updateSessionWithMessages(
                 store, sid, SessionTurns(request.message, env.reply, agg),
                 env.saveOk, now)
  IN IF agg.outcome = "thrown"
     THEN [outcome |-> "thrown", store |-> store, calls |-> calls2]
     ELSE IF ~env.genOk
     THEN [outcome |-> "thrown", store |-> store, calls |-> calls3]
     ELSE IF ~saved.ok
     THEN [outcome |-> "thrown", store |-> store,
           calls |-> calls3 \o <<"storage">>]
     ELSE [outcome |-> "returned", store |-> saved.store,
           calls |-> calls3 \o <<"storage">>,
           sessionId |-> sid, response |-> env.reply,
           contextUsed |-> [sources |-> Len(agg.sources),
                            retrievedChunks |-> Len(agg.retrievedChunks)]]

\* env.agg is the outcome of the collaborators of aggregateContext, env.genOk
\* whether the model replies and env.reply its reply, env.saveOk whether
\* storage accepts the save
processBrainChat(store, request, env, now) ==
  LET given == request.sessionId # NoSession
      found == given /\ store[request.sessionId].exists
      query == [userId |-> request.userId, contextType |-> request.contextType,
                contextItems |-> request.contextItems, limit |-> 0]
  IN processBrainChatFrom(
       IF found THEN store ELSE createNewSession(store, request, now),
       IF found THEN request.sessionId ELSE NewSessionId,
       (IF given THEN <<"storage">> ELSE <<>>)
         \o (IF found THEN <<>> ELSE <<"storage">>),
       request, env, now, aggregateContext(query, env.agg))

\* mutant: the message of the request is not validated
MessageRequiredUnchecked(message) == FALSE

\* !message?.trim()
MessageRequired(message) == Trim(message) = <<>>

\* !contextType || ![...].includes(contextType); an absent contextType is ""
ContextTypeInvalid(contextType) == contextType = "" \/ contextType \notin ContextTypes

\* the response to a call of processBrainChat that threw or returned
BrainChatResponse(result) ==
  IF result.outcome = "thrown"
  THEN [store |-> result.store, calls |-> result.calls, status |-> 500,
        body |-> "Failed to process brain chat message"]
  ELSE [store |-> result.store, calls |-> result.calls, status |-> 200,
        body |-> [sessionId |-> result.sessionId,
                  response |-> result.response,
                  contextUsed |-> result.contextUsed]]

\* BrainChatController.processMessage: the store afterwards, the collaborator
\* calls and the response
processMessage(store, user, body, env, now) ==
  IF user = NoUser
  THEN [store |-> store, calls |-> <<>>, status |-> 401,
        body |-> "User not authenticated"]
  ELSE IF MessageRequired(body.message)
  THEN [store |-> store, calls |-> <<>>, status |-> 400,
        body |-> "Message is required"]
  ELSE IF ContextTypeInvalid(body.contextType)
  THEN [store |-> store, calls |-> <<>>, status |-> 400,
        body |-> "Valid contextType is required"]
  ELSE IF body.stream
  THEN \* BrainChatService has no processBrainChatStream: the call raises
       \* before the headers are sent
       [store |-> store, calls |-> <<>>, status |-> 500,
        body |-> "Streaming failed"]
  ELSE BrainChatResponse(
         processBrainChat(
           store,
           [sessionId |-> body.sessionId, userId |-> user,
            contextType |-> body.contextType,
            contextItems |-> body.contextItems,
            message |-> Trim(body.message)],
           env, now))

BodyMessages == {<<>>, <<" ">>, <<"q">>, <<"q", " ">>}
BodyContextTypes == ContextTypes \cup {"", "other"}
BodyItems == {l \in ContextItemLists : Len(l) <= 1}
BodySessionIds == {NoSession} \cup (1..NumSeeds)

AllIdle == \A r \in ReqIds : req[r].pc = "idle"

\* a collaborator's outcome is drawn only when the call reaches it
EnvMatches(env, calls) ==
  LET reached(call) == \E i \in 1..Len(calls) : calls[i] = call
  IN /\ (env.agg.search = "unused") <=> ~reached("retrieval")
     /\ ~reached("generation") => env.genOk
     /\ (Len(calls) = 0 \/ calls[Len(calls)] # "storage") => env.saveOk
     /\ (Len(calls) = 0) => env.agg.db = "ok"

ProcessMessageReturns(user, body, env, out) ==
  /\ EnvMatches(env, out.calls)
  /\ conversations' = out.store
  /\ lastOp' = [op |-> "processMessage", user |-> user, body |-> body,
                env |-> env, before |-> conversations,
                calls |-> out.calls, status |-> out.status,
                response |-> out.body]

ProcessMessage ==
  /\ AllIdle
  /\ lastOp = NoOp
  /\ \E user \in Users \cup {NoUser}, sessionId \in BodySessionIds,
        contextType \in BodyContextTypes, contextItems \in BodyItems,
        message \in BodyMessages, stream \in BOOLEAN,
        agg \in EnvOutcomes, genOk \in BOOLEAN, saveOk \in BOOLEAN :
       LET body == [sessionId |-> sessionId, contextType |-> contextType,
                    contextItems |-> contextItems, message |-> message,
                    stream |-> stream]
           env == [agg |-> agg, genOk |-> genOk,
                   reply |-> IF genOk THEN <<"a">> ELSE <<>>, saveOk |-> saveOk]
       IN ProcessMessageReturns(
            user, body, env, processMessage(conversations, user, body, env, clock))
  /\ UNCHANGED <<aggVars, dbVars, sessions, req, clock>>

(***************************************************************************)
(* AIController.chat.  valid is the verdict of validateRequest, hasKey     *)
(* whether the user has an API key, outcome how the conversation stream    *)
(* ends after n chunks: "complete", "abort" (it raises an error named      *)
(* AbortError) or "fail" (it raises another error).                        *)
(***************************************************************************)
ChatEvent(e, code) == [e |-> e, code |-> code]

RepeatEvent(ev, n) == [i \in 1..n |-> ev]

\* mutant: every error of the stream is reported with the same code
errorCodeSame(name) == "AI_CONVERSATION_FAILED"

\* err.name === "AbortError" ? "REQUEST_TIMEOUT" : "AI_CONVERSATION_FAILED"
errorCode(name) ==
  IF name = "AbortError" THEN "REQUEST_TIMEOUT" ELSE "AI_CONVERSATION_FAILED"

\* err.name === "AbortError" ? "Request timed out" : "AI conversation failed"
errorMessage(name) ==
  IF name = "AbortError" THEN "Request timed out" ELSE "AI conversation failed"

\* the event that the catch block writes for an error of that name
ChatError(name) ==
  [e |-> "error", code |-> errorCode(name), error |-> errorMessage(name)]

\* processConversationStream(..., controller.signal), checked between its
\* yields: it raises the abort error when the timeout has aborted the signal
\* before it completed, and otherwise completes or raises another error
processConversationStream(timedOut, ending) ==
  IF timedOut THEN "abort" ELSE ending

chat(valid, hasKey, outcome, n) ==
  IF ~valid
  THEN [calls |-> <<>>,
        events |-> <<ChatEvent("error", "INVALID_REQUEST"),
                     ChatEvent("end", ""), ChatEvent("end", "")>>]
  ELSE IF ~hasKey
  THEN [calls |-> <<"storage", "storage">>,
        events |-> <<ChatEvent("error", "API_KEY_REQUIRED"),
                     ChatEvent("end", ""), ChatEvent("end", "")>>]
  ELSE [calls |-> <<"storage", "storage", "generation">>,
        events |-> RepeatEvent(ChatEvent("text", ""), n)
                     \o <<CASE outcome = "complete" -> ChatEvent("done", "")
                            [] outcome = "abort" -> ChatError("AbortError")
                            [] OTHER -> ChatError("Error"),
                          ChatEvent("end", "")>>]

ChatOutcomes == {"complete", "abort", "fail"}

\* how the stream ends when the timeout does not fire
StreamEndings == {"complete", "fail"}

Chat ==
  /\ AllIdle
  /\ lastOp = NoOp
  /\ \E valid \in BOOLEAN, hasKey \in BOOLEAN, timedOut \in BOOLEAN,
        ending \in StreamEndings, n \in 0..MaxChunks :
       LET outcome == processConversationStream(timedOut, ending)
           out == chat(valid, hasKey, outcome, n)
       IN /\ outcome \in ChatOutcomes
          /\ (~valid \/ ~hasKey) => (~timedOut /\ ending = "complete" /\ n = 0)
          /\ ~valid => hasKey
          /\ lastOp' = [op |-> "chat", valid |-> valid, hasKey |-> hasKey,
                        timedOut |-> timedOut,
                        outcome |-> outcome, calls |-> out.calls,
                        events |-> out.events]
  /\ UNCHANGED <<aggVars, dbVars, conversations, sessions, req, clock>>

\* time passes
Tick ==
  /\ clock < MaxTime
  /\ clock' = clock + 1
  /\ UNCHANGED <<aggVars, dbVars, conversations, sessions, req, lastOp>>

(***************************************************************************)
(* Specifications.  Stored records that exist before the first request are *)
(* records an earlier request created: a conversation with its first user  *)
(* turn and the assistant reply, a session with no turn yet.               *)
(***************************************************************************)
SeedConversation(u) ==
  NewConversation(u, <<UserTurn, Message("assistant", <<"a">>, "received")>>, 0)

SeedSession(u) ==
  [exists |-> TRUE, userId |-> u, title |-> <<"x">>, messages |-> <<>>,
   isActive |-> TRUE, lastActivity |-> 0, updatedAt |-> 0]

ScopeIdle ==
  /\ captures = [c \in CaptureIds |->
                   [owner |-> "u1", status |-> "active", bookmarked |-> FALSE]]
  /\ collections = [k \in CollectionIds |-> [user |-> "u1", captures |-> <<>>]]
  /\ aggQuery = NoQuery
  /\ aggEnv = [db |-> "ok", search |-> "unused", hits |-> 0]
  /\ aggResult = NoResult

Init ==
  /\ mongo = MongoIdle
  /\ ScopeIdle
  /\ conversations \in
       {f \in [ConvIds -> {NoDoc} \cup {SeedConversation(u) : u \in Users}] :
          \A c \in ConvIds : c > NumSeeds => f[c] = NoDoc}
  /\ sessions = [i \in SessionIds |-> NoDoc]
  /\ req = [r \in ReqIds |-> IdleReq]
  /\ lastOp = NoOp
  /\ clock = 0

Next ==
  \E r \in SingleReqs :
    \/ StartConversation(r)
    \/ SendMessage(r)
    \/ ConsumeChunk(r)
    \/ StreamRaise(r)
    \/ StreamEnd(r)
    \/ SaveConversation(r)
    \/ CompleteResponse(r)
    \/ Disconnect(r)
    \/ StartConversationBlocking(r)
    \/ ModelReply(r)

Spec == Init /\ [][Next]_vars

InitCrud ==
  /\ mongo = MongoIdle
  /\ ScopeIdle
  /\ conversations \in
       {f \in [ConvIds -> {NoDoc} \cup {SeedConversation(u) : u \in Users}] :
          \A c \in ConvIds : c > NumSeeds => f[c] = NoDoc}
  /\ sessions \in [SessionIds -> {NoDoc} \cup {SeedSession(u) : u \in Users}]
  /\ req = [r \in ReqIds |-> IdleReq]
  /\ lastOp = NoOp
  /\ clock = 0

NextCrud == DeleteSession \/ DeleteConversation \/ UpdateSessionTitle \/ Tick

SpecCrud == InitCrud /\ [][NextCrud]_vars

\* One listing of a stored collection.
NextList == ListSessions \/ ConversationsList

SpecList == Init /\ [][NextList]_vars

\* One derivation of a session title.
NextTitle == GenerateSessionTitle

SpecTitle == Init /\ [][NextTitle]_vars

\* One assembly of a generation prompt.
NextPrompt == GenerateBrainChatResponse

SpecPrompt == Init /\ [][NextPrompt]_vars

\* resolves one limited policy over one stored collection
ResolveLimited ==
  /\ lastOp = NoOp
  /\ \E stored \in StoredCaptures, userId \in Users, policy \in LimitedPolicies :
       lastOp' = [op |-> "resolveLimited", policy |-> policy,
                  userId |-> userId,
                  matching |-> Cardinality(MatchingOf(stored, userId, policy)),
                  scope |-> IF policy = "all"
                            THEN getAllUserCapturesIn(stored, userId)
                            ELSE getBookmarkedCapturesIn(stored, userId)]
  /\ UNCHANGED <<aggVars, dbVars, conversations, sessions, req, clock>>

\* One resolution of a limited policy over a stored collection.
NextLimited == ResolveLimited

SpecLimited == Init /\ [][NextLimited]_vars

\* Two sendMessage exchanges in flight, on stored conversations.
NextConcurrent ==
  \E r \in ReqIds :
    \/ SendMessage(r) /\ req'[r].convId \in 1..NumSeeds
    \/ ConsumeChunk(r)
    \/ StreamRaise(r)
    \/ StreamEnd(r)
    \/ SaveConversation(r)
    \/ CompleteResponse(r)

SpecConcurrent == Init /\ [][NextConcurrent]_vars

\* The calls of connectMongo: a connection attempt settles within its
\* timeouts and a delay is over after its time.
SpecConnect ==
  /\ Init
  /\ [][NextConnect]_vars
  /\ WF_vars(MongooseConnect)
  /\ WF_vars(DelayElapsed)

\* The requests together with the deletes and the passing of time.
NextLifecycle == Next \/ DeleteConversation \/ Tick

SpecLifecycle == Init /\ [][NextLifecycle]_vars

\* One call of an endpoint: a call of the legacy endpoint, of the chat
\* endpoint or of an owner-scoped operation, or the conversation requests.
InitEndpoints ==
  /\ mongo = MongoIdle
  /\ ScopeIdle
  /\ conversations \in
       {f \in [ConvIds -> {NoDoc} \cup {SeedConversation(u) : u \in Users}] :
          \A c \in ConvIds : c > NumSeeds => f[c] = NoDoc}
  /\ sessions \in
       {f \in [SessionIds -> {NoDoc} \cup {SeedSession(u) : u \in Users}] :
          \A i \in SessionIds : i > NumSeeds => f[i] = NoDoc}
  /\ req = [r \in ReqIds |-> IdleReq]
  /\ lastOp = NoOp
  /\ clock = 0

NextEndpoints ==
  \/ ProcessMessage
  \/ Chat
  \/ lastOp = NoOp /\ AllIdle /\ DeleteSession
  \/ lastOp = NoOp /\ AllIdle /\ DeleteConversation
  \/ lastOp = NoOp /\ AllIdle /\ UpdateSessionTitle
  \/ lastOp = NoOp /\ Next
  \/ Tick

SpecEndpoints == InitEndpoints /\ [][NextEndpoints]_vars

(***************************************************************************)
(* Properties of scope resolution and aggregation.                         *)
(***************************************************************************)
\* the scope the request of this state resolves to
Scope == resolve(aggQuery.userId, aggQuery.contextType, aggQuery.contextItems)

Returned == aggQuery # NoQuery /\ aggResult.outcome = "returned"

\* C2: for every selection policy and parameter list, the identifiers that
\* scope resolution returns for a user name only items owned by that user.
C2_ScopeOwnedByUser ==
  Returned =>
    \A i \in 1..Len(aggResult.captureIds) :
      captures[aggResult.captureIds[i].val].owner = aggQuery.userId

\* C8: when scope resolution yields the empty list, aggregateContext returns
\* empty sources, empty retrievedChunks and totalSources 0, and searchSimilar
\* is not invoked.
C8_EmptyScopeNoRetrieval ==
  (aggQuery # NoQuery /\ aggEnv.db = "ok" /\ Len(Scope) = 0) =>
    /\ aggResult.outcome = "returned"
    /\ aggResult.sources = <<>>
    /\ aggResult.retrievedChunks = <<>>
    /\ aggResult.totalSources = 0
    /\ ~aggResult.searchInvoked

C8_Witness ==
  /\ Returned
  /\ aggQuery.contextType = "specific"
  /\ Len(aggQuery.contextItems) > 0
  /\ Len(Scope) = 0
  /\ aggResult.totalSources = 0

\* C9: when searchSimilar raises, aggregateContext still returns: the sources
\* describe the resolved scope, retrievedChunks is empty and totalSources is
\* the length of the resolved scope.
C9_RetrievalFailureDegrades ==
  (aggQuery # NoQuery /\ aggEnv.db = "ok" /\ aggEnv.search = "raise") =>
    /\ aggResult.outcome = "returned"
    /\ {aggResult.sources[i].id : i \in 1..Len(aggResult.sources)} = Vals(Scope)
    /\ Len(aggResult.sources) = Cardinality(Vals(Scope))
    /\ aggResult.retrievedChunks = <<>>
    /\ aggResult.totalSources = Len(Scope)

C9_Witness ==
  /\ Returned
  /\ aggEnv.search = "raise"
  /\ aggResult.searchInvoked
  /\ Len(aggResult.sources) > 0
  /\ aggResult.retrievedChunks = <<>>

\* the members of the groupings that the collection parameters name and the
\* user owns
OwnedCollectionMembers ==
  UNION {Range(collections[k].captures) :
           k \in {c \in CollectionIds :
                    /\ collections[c].user = aggQuery.userId
                    /\ \E i \in 1..Len(aggQuery.contextItems) :
                         aggQuery.contextItems[i] = [type |-> "collection", id |-> c]}}

\* C10: for policy collection the resolved scope is the union of the members
\* of the referenced groupings the user owns, each identifier once, and
\* totalSources is the size of that union.
C10_CollectionScopeIsUnion ==
  (Returned /\ aggQuery.contextType = "collection") =>
    /\ Vals(aggResult.captureIds) = OwnedCollectionMembers
    /\ Len(aggResult.captureIds) = Cardinality(OwnedCollectionMembers)
    /\ aggResult.totalSources = Cardinality(OwnedCollectionMembers)

\* C11: for policy mixed the resolved scope equals, as a set, the union of
\* the collection resolution and the specific resolution over the same
\* parameter list, and holds no identifier twice.
C11_MixedIsUnionOnce ==
  (Returned /\ aggQuery.contextType = "mixed") =>
    LET col == resolve(aggQuery.userId, "collection", aggQuery.contextItems)
        spe == resolve(aggQuery.userId, "specific", aggQuery.contextItems)
    IN /\ Vals(aggResult.captureIds) = Vals(col) \cup Vals(spe)
       /\ \A i, j \in 1..Len(aggResult.captureIds) :
            i # j => aggResult.captureIds[i].val # aggResult.captureIds[j].val

\* the captures that the capture parameters of the request name
NamedCaptures ==
  {aggQuery.contextItems[i].id :
     i \in {j \in 1..Len(aggQuery.contextItems) :
              aggQuery.contextItems[j].type = "capture"}}

OwnedActive(c) ==
  captures[c].owner = aggQuery.userId /\ captures[c].status = "active"

\* C12: for policy specific the resolved scope is exactly the named captures
\* that the user owns and that are active; the other parameters are dropped
\* without an error.
C12_SpecificIsOwnedActive ==
  (aggQuery # NoQuery /\ aggEnv.db = "ok" /\ aggQuery.contextType = "specific") =>
    /\ aggResult.outcome = "returned"
    /\ Vals(aggResult.captureIds) = {c \in NamedCaptures : OwnedActive(c)}
    /\ Len(aggResult.captureIds) = Cardinality(Vals(aggResult.captureIds))

C12_Witness ==
  /\ Returned
  /\ aggQuery.contextType = "specific"
  /\ \E c \in NamedCaptures : captures[c].owner # aggQuery.userId
  /\ \E c \in NamedCaptures :
       captures[c].owner = aggQuery.userId /\ captures[c].status # "active"
  /\ Len(aggResult.captureIds) = 0

First(log, e) ==
  IF Has(log, e)
  THEN CHOOSE i \in 1..Len(log) :
         log[i].e = e /\ \A j \in 1..(i - 1) : log[j].e # e
  ELSE 0

\* C1: no request made by a user reads the turns of, or appends a turn to, a
\* conversation whose owner is another user.
C1_OwnerScopedAccess ==
  \A r \in ReqIds :
    (req[r].kind = "send" /\ req[r].mem.doc.exists) =>
      req[r].mem.doc.userId = req[r].user

\* the caller disconnected after a delta was relayed and before the stream
\* had completed
CancelledMidStream(log) ==
  /\ Has(log, "close")
  /\ \E i \in 1..(First(log, "close") - 1) : log[i].e = "delta"
  /\ ~\E i \in 1..(First(log, "close") - 1) : log[i].e = "complete"

\* C3: a streaming request cancelled after some deltas were relayed and
\* before the stream completed persists no assistant turn.
C3_NoTurnAfterCancel ==
  \A r \in ReqIds :
    (req[r].kind \in {"start", "send"} /\ CancelledMidStream(req[r].log)) =>
      ~Has(req[r].log, "save")

\* the chunks consumed after the caller disconnected
ChunksAfterClose(log) ==
  Cardinality({i \in 1..Len(log) :
                 log[i].e = "chunk" /\ Has(log, "close") /\ i > First(log, "close")})

\* C4: after the caller disconnects while the stream is being drained, at
\* most one further chunk is consumed.
C4_StopsAtNextChunk ==
  \A r \in ReqIds : ChunksAfterClose(req[r].log) <= 1

\* C5: the done event is written only after the save that persists the
\* assistant turn with the accumulated text.
C5_SavedBeforeDone ==
  \A r \in ReqIds :
    Has(req[r].log, "done") =>
      /\ Has(req[r].log, "save")
      /\ First(req[r].log, "save") < First(req[r].log, "done")
      /\ conversations[req[r].mem.id].exists
      /\ LET stored == conversations[req[r].mem.id].messages
         IN /\ Len(stored) > 0
            /\ stored[Len(stored)] =
                 Message("assistant", req[r].assistantText, "received")

C5_Witness ==
  \E r \in ReqIds :
    /\ req[r].kind = "send"
    /\ Has(req[r].log, "delta")
    /\ Has(req[r].log, "done")

\* the position of the first chunk of a log that carried an error payload,
\* 0 when there is none
FirstErrorChunk(log) ==
  LET at == {i \in 1..Len(log) : log[i] = [e |-> "chunk", v |-> <<"error">>]}
  IN IF at = {} THEN 0 ELSE CHOOSE i \in at : \A j \in at : i <= j

\* C14: the first chunk with an error payload ends the exchange: nothing of
\* that chunk or of a later one is relayed, no assistant turn is persisted
\* and the caller receives the error event, not the done event.
C14_ErrorChunkAborts ==
  \A r \in ReqIds :
    LET log == req[r].log
        k == FirstErrorChunk(log)
    IN k > 0 =>
         /\ \A i \in (k + 1)..Len(log) :
              log[i].e \notin {"chunk", "delta", "usage", "done", "save", "complete"}
         /\ Has(log, "error")
         /\ ~Has(log, "done")
         /\ ~Has(log, "save")
         /\ req[r].pc = "finished"
         /\ req[r].mem.isNew => ~conversations[req[r].mem.id].exists
         /\ ~req[r].mem.isNew =>
              conversations[req[r].mem.id] = req[r].mem.doc

C14_Witness ==
  \E r \in ReqIds :
    /\ req[r].kind = "send"
    /\ Has(req[r].log, "delta")
    /\ FirstErrorChunk(req[r].log) > First(req[r].log, "delta")
    /\ Has(req[r].log, "error")

\* C15: the blocking start has the new record in storage from the moment
\* it requests the completion, so a failed generation call leaves the record
\* with the initial turns stored.
C15_PersistedBeforeGeneration ==
  \A r \in ReqIds :
    (req[r].kind = "startBlocking" /\ Has(req[r].log, "open")) =>
      /\ conversations[req[r].mem.id].exists
      /\ SubSeq(conversations[req[r].mem.id].messages, 1, Len(req[r].messages))
           = req[r].messages

\* C15 as amended: the blocking start persists the record once, after the
\* model has replied and the reply, when not empty, has been appended; until
\* then, and when the generation call or the save fails, no record of the
\* request is stored.
C15_PersistedOnceAfterReply ==
  \A r \in ReqIds :
    req[r].kind = "startBlocking" =>
      /\ Count(req[r].log, "save") <= 1
      /\ Has(req[r].log, "save") =>
           /\ First(req[r].log, "open") > 0
           /\ First(req[r].log, "open") < First(req[r].log, "save")
           /\ conversations[NewConvId(r)].exists
           /\ conversations[NewConvId(r)].messages =
                req[r].messages
                  \o (IF req[r].assistantText # <<>>
                      THEN <<Message("assistant", req[r].assistantText, "received")>>
                      ELSE <<>>)
      /\ ~Has(req[r].log, "save") => ~conversations[NewConvId(r)].exists

\* the generation call of a blocking start failed
C15_Witness ==
  \E r \in ReqIds :
    /\ req[r].kind = "startBlocking"
    /\ req[r].log = <<Ev("open"), Ev("throw")>>
    /\ req[r].mem.doc.messages = <<UserTurn>>
    /\ ~conversations[NewConvId(r)].exists

\* C16: sendMessage on an identifier that names no stored conversation ends
\* with an error before the generation call: nothing is relayed and nothing
\* is persisted.
C16_SendToAbsentFails ==
  \A r \in ReqIds :
    (req[r].kind = "send" /\ ~req[r].mem.doc.exists) =>
      /\ req[r].pc = "finished"
      /\ ~Has(req[r].log, "open")
      /\ ~Has(req[r].log, "chunk")
      /\ ~Has(req[r].log, "delta")
      /\ ~Has(req[r].log, "save")
      /\ ~Has(req[r].log, "done")
      /\ Has(req[r].log, "error")
      /\ ~conversations[req[r].convId].exists

C16_Witness ==
  \E r \in ReqIds :
    /\ req[r].kind = "send"
    /\ ~conversations[req[r].convId].exists
    /\ req[r].log = <<Ev("error"), Ev("end")>>

\* the stored records of both kinds
StoredRecords ==
  {conversations[c] : c \in {i \in DOMAIN conversations : conversations[i].exists}}
    \cup {sessions[i] : i \in {j \in DOMAIN sessions : sessions[j].exists}}

\* C17: the last-activity timestamp of a stored record is never older than
\* the most recent mutation of that record.
C17_LastActivityIsLastMutation ==
  \A d \in StoredRecords : d.lastActivity >= d.updatedAt

\* conversation c was stored and the delete of lastOp removed it
Deleted(c) ==
  /\ lastOp.op = "deleteConversation"
  /\ lastOp.id = c
  /\ lastOp.before[c].exists
  /\ lastOp.before[c].userId = lastOp.user

\* C18: a conversation that has been deleted never exists again, whatever
\* the requests that loaded it before the delete do afterwards.
C18_DeletedIsTerminal ==
  \A c \in ConvIds : [](Deleted(c) => [](~conversations[c].exists))

\* a sendMessage exchange loaded the conversation, the conversation was
\* deleted while it streamed, and its save was rejected
C18_Witness ==
  \E r \in ReqIds :
    /\ req[r].kind = "send"
    /\ Deleted(req[r].mem.id)
    /\ Has(req[r].log, "complete")
    /\ req[r].pc = "finished"
    /\ Has(req[r].log, "error")
    /\ ~conversations[req[r].mem.id].exists

\* the request of lastOp fails the checks of processMessage
ProcessMessageInvalid ==
  /\ lastOp.op = "processMessage"
  /\ \/ lastOp.user = NoUser
     \/ Trim(lastOp.body.message) = <<>>
     \/ lastOp.body.contextType \notin ContextTypes

C19_AlwaysActive ==
  \A d \in StoredRecords : d.isActive

\* a request appended a turn to a conversation stored before it
C19_Witness ==
  \E r \in ReqIds :
    /\ req[r].kind = "send"
    /\ Has(req[r].log, "save")
    /\ conversations[req[r].mem.id].exists
    /\ Len(conversations[req[r].mem.id].messages) > Len(req[r].prompt) - 2
    /\ conversations[req[r].mem.id].isActive

\* C7: creating a conversation with no initial turn fails, persists no
\* record and issues no generation call, in both variants.
C7_EmptyStartRejected ==
  \A r \in ReqIds :
    (req[r].kind \in {"start", "startBlocking"} /\ Len(req[r].messages) = 0) =>
      /\ req[r].pc = "finished"
      /\ ~Has(req[r].log, "open")
      /\ ~Has(req[r].log, "save")
      /\ ~Has(req[r].log, "done")
      /\ ~Has(req[r].log, "return")
      /\ req[r].kind = "start" => Has(req[r].log, "error")
      /\ req[r].kind = "startBlocking" => Has(req[r].log, "throw")
      /\ \A c \in ConvIds : c > NumSeeds => ~conversations[c].exists

C7_Witness ==
  \E r \in ReqIds :
    /\ req[r].kind = "start"
    /\ Len(req[r].messages) = 0
    /\ Has(req[r].log, "error")

\* the delete of lastOp named a stored record owned by another user
DeleteOfForeignRecord ==
  /\ lastOp.op \in {"deleteSession", "deleteConversation"}
  /\ lastOp.user # NoUser
  /\ lastOp.id # InvalidId
  /\ lastOp.before[lastOp.id].exists
  /\ lastOp.before[lastOp.id].userId # lastOp.user

\* C6: a delete of a record owned by another user leaves every record
\* unchanged and answers exactly as the delete of an absent record does.
C6_DeleteNotOwnedLooksAbsent ==
  DeleteOfForeignRecord =>
    LET absent == [lastOp.before EXCEPT ![lastOp.id] = NoDoc]
        onAbsent == IF lastOp.op = "deleteSession"
                    THEN deleteSession(absent, lastOp.user, lastOp.id)
                    ELSE deleteConversation(absent, lastOp.id, lastOp.user)
        store == IF lastOp.op = "deleteSession" THEN sessions ELSE conversations
    IN /\ store = lastOp.before
       /\ lastOp.status = onAbsent.status
       /\ lastOp.body = onAbsent.body
       /\ lastOp.op = "deleteSession" => lastOp.status = 404

C6_Witness ==
  /\ DeleteOfForeignRecord
  /\ lastOp.op = "deleteSession"
  /\ lastOp.status = 404
  /\ sessions[lastOp.id].exists

(***************************************************************************)
(* Properties of the generation calls.                                     *)
(***************************************************************************)
\* the turns stored under an identifier, none when no record is stored
TurnsOf(store, id) == IF store[id].exists THEN store[id].messages ELSE <<>>

\* the number of entries of a sequence of calls that name a collaborator
Calls(calls, name) == Cardinality({i \in 1..Len(calls) : calls[i] = name})

\* the turns a request holds in memory and has not pushed itself
LoadedTurns(q) ==
  SubSeq(q.mem.doc.messages, 1, Len(q.mem.doc.messages) - q.mem.pushed)

\* C21: a request calls the generation collaborator at most once; a request
\* that made the call and ended in a failure has persisted no turn: a new
\* record of it is not stored and a loaded record holds the turns it had
\* when it was loaded.  The legacy endpoint whose generation call fails
\* answers with the failure and leaves every turn list as it was.
C21_NoRetryNoTurn ==
  /\ \A r \in ReqIds :
       LET q == req[r]
       IN /\ Count(q.log, "open") <= 1
          /\ (Has(q.log, "open") /\ (Has(q.log, "error") \/ Has(q.log, "throw"))) =>
               /\ q.pc = "finished"
               /\ ~Has(q.log, "save")
               /\ ~Has(q.log, "done")
               /\ ~Has(q.log, "return")
               /\ TurnsOf(conversations, q.mem.id) =
                    (IF q.mem.isNew THEN <<>> ELSE LoadedTurns(q))
  /\ lastOp.op = "processMessage" =>
       /\ Calls(lastOp.calls, "generation") <= 1
       /\ (Calls(lastOp.calls, "generation") = 1 /\ ~lastOp.env.genOk) =>
            /\ lastOp.status = 500
            /\ lastOp.calls[Len(lastOp.calls)] = "generation"
            /\ \A c \in ConvIds :
                 TurnsOf(conversations, c) = TurnsOf(lastOp.before, c)

\* the stream of a sendMessage exchange raised after a delta was relayed
C21_Witness ==
  \E r \in ReqIds :
    /\ req[r].kind = "send"
    /\ Has(req[r].log, "delta")
    /\ ~Has(req[r].log, "chunk") \/ FirstErrorChunk(req[r].log) = 0
    /\ ~Has(req[r].log, "close")
    /\ Has(req[r].log, "error")
    /\ conversations[req[r].mem.id].exists

\* the request of lastOp reached the conversation stream of the chat endpoint
ChatStreamed ==
  /\ lastOp.op = "chat"
  /\ lastOp.valid
  /\ lastOp.hasKey

\* the error events written to the response of the chat endpoint
ChatErrors == {i \in 1..Len(lastOp.events) : lastOp.events[i].e = "error"}

TitleUpdate ==
  /\ lastOp.op = "updateSessionTitle"
  /\ lastOp.user # NoUser
  /\ lastOp.id # InvalidId

\* the title of lastOp is empty, blank or longer than the limit
TitleRejected ==
  \/ \A i \in 1..Len(lastOp.title) : lastOp.title[i] = " "
  \/ Len(lastOp.title) > 200

\* C23: a title update with an empty, blank or over-long title fails
\* validation and leaves every stored record unchanged; with a valid title
\* it changes the title, and nothing else but the storage's own mutation
\* timestamp, of the record that matches both the identifier and the user,
\* and only of that record; when no record matches it reports not-found and
\* changes nothing.
C23_UpdateTitle ==
  TitleUpdate =>
    LET before == lastOp.before
        id == lastOp.id
        matches == before[id].exists /\ before[id].userId = lastOp.user
    IN /\ TitleRejected => (lastOp.status = 400 /\ sessions = before)
       /\ (~TitleRejected /\ ~matches) => (lastOp.status = 404 /\ sessions = before)
       /\ (~TitleRejected /\ matches) =>
            /\ lastOp.status = 200
            /\ \A i \in SessionIds : i # id => sessions[i] = before[i]
            /\ sessions[id].title = Trim(lastOp.title)
            /\ Len(sessions[id].title) <= 200
            /\ [sessions[id] EXCEPT !.title = before[id].title,
                                    !.updatedAt = before[id].updatedAt] = before[id]

\* a title of exactly the limit is stored without its trailing blank, while
\* another user's session is stored too
C23_Witness ==
  /\ TitleUpdate
  /\ Len(lastOp.title) = 200
  /\ lastOp.status = 200
  /\ Len(sessions[lastOp.id].title) = 199
  /\ \E i \in SessionIds :
       i # lastOp.id /\ sessions[i].exists /\ sessions[i].userId # lastOp.user

(***************************************************************************)
(* Properties of the listings.                                             *)
(***************************************************************************)
\* lastOp is a listing that was answered
Listed ==
  /\ lastOp.op \in {"listSessions", "conversationsList"}
  /\ lastOp.status = 200

\* the records of the collection of lastOp that its user owns
OwnedListed ==
  {i \in 1..Len(lastOp.collection) : lastOp.collection[i].userId = lastOp.user}

\* the listing of lastOp holds records of its user only, each once, newest
\* last activity first
OwnedNewestFirst ==
  LET result == lastOp.result
  IN /\ \A k \in 1..Len(result) :
          /\ result[k].id \in OwnedListed
          /\ result[k].lastActivity = lastOp.collection[result[k].id].lastActivity
     /\ \A j, k \in 1..Len(result) :
          j < k => /\ result[j].id # result[k].id
                   /\ result[j].lastActivity >= result[k].lastActivity

RECURSIVE WordsOf(_)
WordsOf(t) ==
  IF t = <<>> THEN <<>>
  ELSE IF t[1] = " " THEN WordsOf(Tail(t))
  ELSE LET ends == {k \in 1..Len(t) :
                      /\ \A j \in 1..k : t[j] # " "
                      /\ k = Len(t) \/ t[k + 1] = " "}
           k == CHOOSE e \in ends : TRUE
       IN <<SubSeq(t, 1, k)>> \o WordsOf(SubSeq(t, k + 1, Len(t)))

\* the words of a sequence of words written one after the other with a
\* single blank between them
RECURSIVE Spaced(_)
Spaced(ws) ==
  IF ws = <<>> THEN <<>>
  ELSE IF Len(ws) = 1 THEN ws[1]
  ELSE ws[1] \o <<" ">> \o Spaced(Tail(ws))

\* a text longer than 50 characters is cut to 47 characters and "..."
CutToFifty(t) ==
  IF Len(t) > 50 THEN SubSeq(t, 1, 47) \o <<".", ".", ".">> ELSE t

TitleDerived == lastOp.op = "generateSessionTitle"

\* C25: the derived title is the first 5 words of the message joined by
\* single blanks, cut to 47 characters and "..." when that is longer than
\* 50 characters; it is never longer than 50 characters.
C25_TitleIsFirstFiveWords ==
  TitleDerived =>
    /\ lastOp.title = CutToFifty(Spaced(Take(WordsOf(lastOp.message), 5)))
    /\ Len(lastOp.title) <= 50

(***************************************************************************)
(* The fragments of the prompt.                                            *)
(***************************************************************************)
\* the fragments a text renders: the identifier and the text of every
\* "[From: ...]" in it, in the order of the text
RECURSIVE RenderedFragments(_)
RenderedFragments(text) ==
  IF Len(text) < 4 THEN <<>>
  ELSE IF text[1] = FromOpen /\ text[3] = FromClose
       THEN <<[sourceId |-> text[2], text |-> text[4]]>>
              \o RenderedFragments(SubSeq(text, 5, Len(text)))
       ELSE RenderedFragments(Tail(text))

PromptBuilt == lastOp # NoOp /\ lastOp.op = "generateBrainChatResponse"

\* C26: the prompt renders exactly min(n, 10) of the n retrieved fragments:
\* the first ones, in the order of retrieval, each with its source identifier.
C26_PromptFirstTenFragments ==
  PromptBuilt =>
    LET n == Len(lastOp.retrievedChunks)
        rendered == RenderedFragments(lastOp.prompt)
    IN /\ Len(rendered) = Min(n, 10)
       /\ \A i \in 1..Len(rendered) :
            /\ rendered[i].sourceId = ToString(lastOp.retrievedChunks[i].sourceId)
            /\ rendered[i].text = lastOp.retrievedChunks[i].text

C26_Witness ==
  /\ PromptBuilt
  /\ Len(lastOp.retrievedChunks) = 12
  /\ Len(RenderedFragments(lastOp.prompt)) = 10

(***************************************************************************)
(* The size of the resolved scope.                                         *)
(***************************************************************************)
LimitedResolved == lastOp # NoOp /\ lastOp.op = "resolveLimited"

\* C27: the resolved scope holds at most 1000 identifiers for policy all and
\* at most 500 for policy bookmarks, however many matching items the user owns.
C27_ScopeCapped ==
  LimitedResolved =>
    /\ lastOp.policy = "all" => Len(lastOp.scope) <= 1000
    /\ lastOp.policy = "bookmarks" => Len(lastOp.scope) <= 500

C27_Witness ==
  /\ LimitedResolved
  /\ lastOp.policy = "all"
  /\ lastOp.matching > 1000
  /\ Len(lastOp.scope) = 1000

C27_BookmarksWitness ==
  /\ LimitedResolved
  /\ lastOp.policy = "bookmarks"
  /\ lastOp.matching > 500
  /\ Len(lastOp.scope) = 500

(***************************************************************************)
(* The relay of the text deltas.                                           *)
(***************************************************************************)
\* the deltas written to the response, in the order of the writes
RelayedDeltas(log) ==
  LET at == SelectSeq([i \in 1..Len(log) |-> i], LAMBDA i : log[i].e = "delta")
  IN [k \in 1..Len(at) |-> log[at[k]].v]

\* the deltas of the chunks consumed, in the order of arrival: a chunk with
\* an error payload, or without text, brings none
ArrivedDeltas(log) ==
  LET at == SelectSeq([i \in 1..Len(log) |-> i],
                      LAMBDA i : /\ log[i].e = "chunk"
                                 /\ log[i].v \notin {<<>>, <<"error">>})
  IN [k \in 1..Len(at) |-> log[at[k]].v]

Streamed(q) == q.kind \in {"start", "send"}

\* C28: the deltas are relayed in the order their chunks arrive, and when the
\* exchange completes the stored assistant turn holds the concatenation, in
\* that order, of exactly the relayed deltas.
C28_DeltasInOrderAndStored ==
  \A r \in ReqIds :
    Streamed(req[r]) =>
      /\ RelayedDeltas(req[r].log) = ArrivedDeltas(req[r].log)
      /\ Has(req[r].log, "done") =>
           /\ conversations[req[r].mem.id].exists
           /\ LET turns == conversations[req[r].mem.id].messages
              IN /\ turns # <<>>
                 /\ turns[Len(turns)].role = "assistant"
                 /\ turns[Len(turns)].content = Flatten(RelayedDeltas(req[r].log))

C28_Witness ==
  \E r \in ReqIds :
    /\ Streamed(req[r])
    /\ Has(req[r].log, "done")
    /\ RelayedDeltas(req[r].log) = <<(<<"a">>), (<<"b">>)>>
    /\ LET turns == conversations[req[r].mem.id].messages
       IN turns[Len(turns)].content = <<"a", "b">>

(***************************************************************************)
(* The turns of a non-streaming brain chat exchange.                       *)
(***************************************************************************)
\* a non-streaming request that passed the checks of processMessage, and
\* whose storage, aggregation and generation did not fail
BrainChatServed ==
  /\ lastOp # NoOp
  /\ lastOp.op = "processMessage"
  /\ lastOp.status \notin {400, 401}
  /\ ~lastOp.body.stream
  /\ lastOp.env.agg.db = "ok"
  /\ lastOp.env.genOk
  /\ lastOp.env.saveOk

\* the session the exchange was appended to, and its turns before
ServedSession ==
  IF lastOp.body.sessionId # NoSession /\ lastOp.before[lastOp.body.sessionId].exists
  THEN lastOp.body.sessionId
  ELSE NewSessionId

TurnsBefore ==
  IF lastOp.before[ServedSession].exists
  THEN lastOp.before[ServedSession].messages
  ELSE <<>>

\* C29: a non-streaming processBrainChat that succeeds has appended exactly
\* two turns to the session, the user turn and then the assistant turn; the
\* assistant turn records the identifiers of the aggregated sources and the
\* fragment count, and the returned contextUsed holds the number of those
\* sources and that fragment count.
C29_TwoTurnsWithProvenance ==
  BrainChatServed =>
    /\ lastOp.status = 200
    /\ conversations[ServedSession].exists
    /\ LET turns == conversations[ServedSession].messages
           n == Len(TurnsBefore)
       IN /\ Len(turns) = n + 2
          /\ SubSeq(turns, 1, n) = TurnsBefore
          /\ turns[n + 1].role = "user"
          /\ turns[n + 1].content = Trim(lastOp.body.message)
          /\ turns[n + 2].role = "assistant"
          /\ turns[n + 2].content = lastOp.response.response
          /\ Len(turns[n + 2].contextUsed.sources)
               = lastOp.response.contextUsed.sources
          /\ turns[n + 2].contextUsed.retrievedChunks
               = lastOp.response.contextUsed.retrievedChunks

(***************************************************************************)
(* Two sendMessage exchanges on one conversation.                          *)
(***************************************************************************)
AssistantTurn(q) == Message("assistant", q.assistantText, "received")

\* the exchanges on conversation c whose save has completed
SavedSends(c) ==
  {r \in ReqIds : /\ req[r].kind = "send"
                  /\ req[r].convId = c
                  /\ Has(req[r].log, "save")}

\* the save of the sendMessage exchange of slot r completes in this step
SendSaves(r) ==
  /\ req[r].kind = "send"
  /\ req[r].pc = "saving"
  /\ req'[r].pc = "saved"

\* every stored conversation holds its first turns and, after them, one turn
\* for each exchange saved on it
TurnsOfAllSaves ==
  \A c \in 1..NumSeeds :
    conversations[c].exists =>
      LET seed == SeedConversation(conversations[c].userId).messages
          turns == conversations[c].messages
      IN /\ Len(turns) = Len(seed) + Cardinality(SavedSends(c))
         /\ SubSeq(turns, 1, Len(seed)) = seed
         /\ \A r \in SavedSends(c) :
              \E i \in Len(seed) + 1 .. Len(turns) : turns[i] = AssistantTurn(req[r])

\* a save puts the assistant turn of its exchange after all the turns stored
\* at that moment
SaveAppends ==
  \A r \in ReqIds :
    SendSaves(r) =>
      conversations'[req[r].convId].messages
        = Append(conversations[req[r].convId].messages, AssistantTurn(req[r]))

\* C30: when two sendMessage exchanges on the same conversation overlap and
\* both complete, both assistant turns are stored, in the order of the two
\* saves, and no turn stored earlier is lost or overwritten.
C30_ConcurrentTurnsKept == []TurnsOfAllSaves /\ [][SaveAppends]_vars

C30_Witness ==
  /\ \A r \in ReqIds : /\ req[r].kind = "send"
                       /\ req[r].convId = 1
                       /\ Has(req[r].log, "done")
  /\ LET seed == SeedConversation(conversations[1].userId).messages
         turns == conversations[1].messages
     IN /\ \A r \in ReqIds : Len(req[r].mem.doc.messages) = Len(seed) + 1
        /\ req[1].assistantText = <<"a">>
        /\ req[2].assistantText = <<"b">>
        /\ turns = seed \o <<AssistantTurn(req[2]), AssistantTurn(req[1])>>

(***************************************************************************)
(* The terminal event of a streaming response.                             *)
(***************************************************************************)
\* the places of the terminal events, done and error, in a log
TerminalAt(log) == {i \in 1..Len(log) : log[i].e \in {"done", "error"}}

\* C31: a streaming request writes one terminal event, done or error and
\* never both; no delta or usage event is written after it, and when the
\* handler is through the response has been ended, after the terminal event.
C31_OneTerminalEvent ==
  \A r \in ReqIds :
    Streamed(req[r]) =>
      LET log == req[r].log
      IN /\ Cardinality(TerminalAt(log)) <= 1
         /\ \A i \in TerminalAt(log) :
              \A j \in (i + 1)..Len(log) : log[j].e \notin {"delta", "usage"}
         /\ Count(log, "end") <= 1
         /\ \A j \in 1..Len(log) :
              log[j].e = "end" => \E i \in TerminalAt(log) : i < j
         /\ req[r].pc = "finished" =>
              Cardinality(TerminalAt(log)) = 1 /\ Count(log, "end") = 1

C31_Witness ==
  \E r \in ReqIds :
    /\ Streamed(req[r])
    /\ req[r].pc = "finished"
    /\ Has(req[r].log, "delta")
    /\ Has(req[r].log, "usage")
    /\ Has(req[r].log, "error")
    /\ ~Has(req[r].log, "done")
    /\ req[r].log[Len(req[r].log)].e = "end"

(***************************************************************************)
(* The turns of a sendMessage exchange.                                    *)
(***************************************************************************)
\* the turns of the document as the exchange loaded it
LoadedBefore(q) ==
  SubSeq(q.mem.doc.messages, 1, Len(q.mem.doc.messages) - q.mem.pushed)

SendCompleted(q) == q.kind = "send" /\ Has(q.log, "done")

\* C32: a sendMessage exchange that succeeds leaves the stored turns one
\* longer: the earlier turns unchanged and, at the end, the assistant reply
\* with status received; the new user content went to the model as the last
\* entry of the generation request and is not among the stored turns.
C32_SendAddsOneTurn ==
  \A r \in SingleReqs :
    SendCompleted(req[r]) =>
      LET q == req[r]
          before == LoadedBefore(q)
          turns == conversations[q.convId].messages
      IN /\ Len(turns) = Len(before) + 1
         /\ SubSeq(turns, 1, Len(before)) = before
         /\ turns[Len(turns)] = Message("assistant", q.assistantText, "received")
         /\ q.prompt = <<SystemMessage>> \o PromptOf(before)
                         \o <<[role |-> "user", content |-> <<"q">>]>>

C32_Witness ==
  \E r \in SingleReqs :
    /\ SendCompleted(req[r])
    /\ Len(LoadedBefore(req[r])) = 2
    /\ Len(conversations[req[r].convId].messages) = 3
    /\ conversations[req[r].convId].messages[3].content = <<"b", "a">>

(***************************************************************************)
(* The record of a streaming start.                                        *)
(***************************************************************************)
\* C33: in the streaming start the new record is stored only after the
\* stream was read to its end: when the stream cannot be opened, a chunk
\* carries an error or the stream raises, no record of the request is in
\* storage, and so none of its initial turns.
C33_StoredAfterDrain ==
  \A r \in SingleReqs :
    req[r].kind = "start" =>
      /\ conversations[NewConvId(r)].exists =>
           /\ Has(req[r].log, "complete")
           /\ Has(req[r].log, "save")
           /\ First(req[r].log, "complete") < First(req[r].log, "save")
      /\ (Has(req[r].log, "error") /\ ~Has(req[r].log, "complete")) =>
           ~conversations[NewConvId(r)].exists

C33_Witness ==
  \E r \in SingleReqs :
    /\ req[r].kind = "start"
    /\ req[r].messages # <<>>
    /\ Has(req[r].log, "delta")
    /\ Has(req[r].log, "error")
    /\ ~Has(req[r].log, "complete")
    /\ req[r].pc = "finished"
    /\ ~conversations[NewConvId(r)].exists

C33_StoredWitness ==
  \E r \in SingleReqs :
    /\ req[r].kind = "start"
    /\ Has(req[r].log, "done")
    /\ conversations[NewConvId(r)].exists
    /\ Len(conversations[NewConvId(r)].messages) = Len(req[r].messages) + 1

(***************************************************************************)
(* The content of the stored turns.                                        *)
(***************************************************************************)
NoEmptyTurn(doc) ==
  doc.exists => \A i \in 1..Len(doc.messages) : doc.messages[i].content # <<>>

\* C34: every turn of every stored conversation and session has content
\* that is not empty: a generation that yields no text, a stream that
\* completes without a text delta or a blocking call with an empty reply,
\* never leaves a stored assistant turn with empty content.
C34_NoEmptyContent ==
  /\ \A c \in ConvIds : NoEmptyTurn(conversations[c])
  /\ \A s \in SessionIds : NoEmptyTurn(sessions[s])

\* a stream that completed without text: the save was refused
C34_Witness ==
  \E r \in SingleReqs :
    /\ req[r].kind = "send"
    /\ Has(req[r].log, "complete")
    /\ ~Has(req[r].log, "delta")
    /\ req[r].assistantText = <<>>
    /\ req[r].pc = "finished"
    /\ Has(req[r].log, "error")
    /\ conversations[req[r].convId].exists
    /\ conversations[req[r].convId].messages = LoadedBefore(req[r])

\* a blocking start with an empty reply: the record is stored without an
\* assistant turn
C34_BlockingWitness ==
  \E r \in SingleReqs :
    /\ req[r].kind = "startBlocking"
    /\ Has(req[r].log, "save")
    /\ req[r].assistantText = <<>>
    /\ conversations[NewConvId(r)].exists
    /\ conversations[NewConvId(r)].messages = req[r].messages

(***************************************************************************)
(* A brain chat exchange that fails before the save.                       *)
(***************************************************************************)
\* a non-streaming request that passed the checks of processMessage, and
\* whose context aggregation or generation failed
BrainChatFailed ==
  /\ lastOp # NoOp
  /\ lastOp.op = "processMessage"
  /\ lastOp.status \notin {400, 401}
  /\ ~lastOp.body.stream
  /\ lastOp.env.agg.db = "fail" \/ ~lastOp.env.genOk

\* C35: when the context aggregation or the generation call of
\* processBrainChat fails, the error reaches the caller and the turns of the
\* session are as before: neither the user turn nor an assistant turn of
\* the request is stored.
C35_FailureKeepsTurns ==
  BrainChatFailed =>
    /\ lastOp.status = 500
    /\ \A c \in ConvIds :
         conversations[c].exists =>
           conversations[c].messages =
             (IF lastOp.before[c].exists THEN lastOp.before[c].messages ELSE <<>>)

C35_Witness ==
  /\ BrainChatFailed
  /\ ~lastOp.env.genOk
  /\ lastOp.body.sessionId # NoSession
  /\ lastOp.before[lastOp.body.sessionId].exists
  /\ Len(lastOp.before[lastOp.body.sessionId].messages) = 2
  /\ lastOp.calls[Len(lastOp.calls)] = "generation"
  /\ conversations[lastOp.body.sessionId].messages
       = lastOp.before[lastOp.body.sessionId].messages

C35_AggregationWitness ==
  /\ BrainChatFailed
  /\ lastOp.env.agg.db = "fail"
  /\ lastOp.body.sessionId # NoSession
  /\ lastOp.before[lastOp.body.sessionId].exists
  /\ \A i \in 1..Len(lastOp.calls) : lastOp.calls[i] # "generation"
  /\ conversations = lastOp.before

(***************************************************************************)
(* The calls of connectMongo.                                              *)
(***************************************************************************)
\* the places of the connection attempts in the log of a call
AttemptsAt(log) == {i \in 1..Len(log) : log[i].e \in {"ok", "fail"}}

\* the number of the attempt that the log entry at place i settles
AttemptNo(log, i) == Cardinality({j \in AttemptsAt(log) : j <= i})

ConnectDone == mongo.pc \in {"returned", "thrown"}

ConnectRunning == mongo.pc \in {"connecting", "waiting"}

\* at most maxRetries attempts; none after a successful one, which marks the
\* process connected and returns
AttemptsBounded ==
  /\ Cardinality(AttemptsAt(mongo.log)) <= mongo.maxRetries
  /\ \A i \in 1..Len(mongo.log) :
       mongo.log[i].e = "ok" =>
         i = Len(mongo.log) /\ mongo.pc = "returned" /\ mongo.isConnected
  /\ (mongo.pc = "returned" /\ ~mongo.wasConnected) =>
       (mongo.log # <<>> /\ mongo.log[Len(mongo.log)].e = "ok")

\* a delay follows every failed attempt but the last one allowed, and
\* nothing else is followed by a delay
WaitsBetweenFailures ==
  LET log == mongo.log
  IN \A i \in 1..Len(log) :
       /\ log[i].e = "wait" => (i > 1 /\ log[i - 1].e = "fail")
       /\ (log[i].e = "fail" /\ AttemptNo(log, i) < mongo.maxRetries) =>
            IF i = Len(log) THEN mongo.pc = "waiting" ELSE log[i + 1].e = "wait"
       /\ (log[i].e = "fail" /\ AttemptNo(log, i) = mongo.maxRetries) =>
            (i = Len(log) /\ mongo.pc = "thrown")

\* the call fails after maxRetries failed attempts
FailedAfterAllAttempts ==
  /\ Count(mongo.log, "fail") = mongo.maxRetries
  /\ ~Has(mongo.log, "ok")

\* once connected, a call returns without an attempt
ConnectedReturnsAtOnce ==
  mongo.wasConnected => (mongo.pc = "returned" /\ mongo.log = <<>>)

\* C36 as claimed: connectMongo makes at most maxRetries attempts, none
\* after a successful one, waits between failed attempts but not after the
\* last, fails with an error only after exactly maxRetries failed attempts,
\* and once connected returns without an attempt.
C36_FailsOnlyAfterAllAttempts ==
  /\ AttemptsBounded
  /\ WaitsBetweenFailures
  /\ mongo.pc = "thrown" => FailedAfterAllAttempts
  /\ ConnectedReturnsAtOnce

ConnectSafe ==
  /\ AttemptsBounded
  /\ WaitsBetweenFailures
  /\ mongo.pc = "thrown" =>
       IF mongo.uri THEN FailedAfterAllAttempts ELSE mongo.log = <<>>
  /\ ConnectedReturnsAtOnce

\* C36, amended: every call of connectMongo terminates; it makes at most
\* maxRetries attempts, none after a successful one, waits between failed
\* attempts but not after the last, and fails with an error only after
\* exactly maxRetries failed attempts or, when no connection URI is
\* configured, before any attempt; once connected, a call returns without
\* an attempt.
C36_ConnectTerminates == []ConnectSafe /\ (ConnectRunning ~> ConnectDone)

C36_Witness ==
  /\ mongo.pc = "thrown"
  /\ mongo.uri
  /\ mongo.maxRetries = 3
  /\ [i \in 1..Len(mongo.log) |-> mongo.log[i].e]
       = <<"fail", "wait", "fail", "wait", "fail">>

C36_NoUriWitness ==
  /\ mongo.pc = "thrown"
  /\ ~mongo.uri
  /\ mongo.maxRetries > 0
  /\ mongo.log = <<>>

C36_ConnectedWitness ==
  /\ mongo.calls = 2
  /\ mongo.wasConnected
  /\ mongo.pc = "returned"
  /\ mongo.log = <<>>

====
